---------------------------- MODULE Spec2Model ----------------------------
(***************************************************************************)
(* Credential lifecycle and resilient request executor of the              *)
(* llm-provider-auth package: the file-backed account stores, the token    *)
(* refresh of the Antigravity and Codex providers, and the Antigravity     *)
(* executor (ChatAntigravity._agenerate / _astream).                       *)
(*                                                                         *)
(* Conventions.  Python None and the empty string are both falsy wherever  *)
(* the code tests them, and are both written "".  An Optional object       *)
(* (self.auth, the result of load_accounts) is a sequence of length at     *)
(* most one: <<>> is None, <<x>> is the object x.  List indices keep the   *)
(* code's 0-based values (active_index); accounts[i] of the code is        *)
(* accounts[i + 1] here.  A dict key that may be absent is an Optional.    *)
(* Time is counted in seconds.                                             *)
(***************************************************************************)
EXTENDS Integers, Sequences, FiniteSets, TLC

VARIABLES
    \* ---- the world shared by every component
    now,                      \* time.time()
    disk,                     \* the Antigravity account files: [primary, legacy]
    \* ---- one logical call of ChatAntigravity (_agenerate or _astream)
    mode,                     \* "generate" | "stream"
    pc,                       \* position of the call
    attempt,                  \* the outer loop variable
    ep,                       \* index of the endpoint of the inner loop (1-based)
    self_auth,                \* self.auth (Optional)
    project_override,         \* self.project_id or _env_project_override()
    last_http_error,          \* status of last_http_error, 0 for None
    last_status_by_endpoint,  \* endpoint -> status, 0 for "no entry"
    chunks,                   \* content chunks yielded so far by _astream
    result,                   \* how the call ended
    obs,                      \* observations of the run (history, not program state)
    \* ---- a single refresh, applied to a drawn credential and store
    rf,                       \* the refresh under test and its outcome
    \* ---- the components exercised on their own
    ops,                      \* the last operation applied to a provider's store
    expiry,                   \* a credential and a buffer whose expiry is evaluated
    stream,                   \* one opened response stream and what the caller received
    conc,                     \* concurrent calls sharing one credential handle
    gate,                     \* concurrent calls and the HTTP semaphore
    poll,                     \* one device-code polling loop
    codex,                    \* one logical call of ChatCodex
    race,                     \* concurrent ChatCodex calls answered 401
    files,                    \* two processes writing one provider's accounts file
    listener,                 \* the local callback listener of a redirect login
    slots                     \* gated requests with their backoff sleeps

-----------------------------------------------------------------------------
(* Bounds of the model *)

MaxChunks == 1
MaxAccounts == 2
MaxNow == 2
MaxClock == 6
MaxExpiresAt == 4
MaxBuffer == 2
NumCallers == 3
NumCalls == 4
MaxConfigured == 3
MaxLines == 2
MaxParts == 2
MaxPolls == 3
MaxInitialInterval == 5
MaxServerInterval == 3

(* Program constants *)

(* an outer loop one pass short *)
ThreePasses == 4 - 1

MaxAttempts == 4
NumEndpoints == 3
DefaultBufferSeconds == 60
DefaultExpiresIn == 3600
DefaultStorageVersion == 3
DefaultCodexStorageVersion == 1

ANTIGRAVITY_DEFAULT_PROJECT_ID == "rising-fact-p41fc"

-----------------------------------------------------------------------------
(* Optional values *)

NoneV == <<>>
Some(x) == <<x>>
IsNone(o) == o = <<>>
Get(o) == o[1]

(* dict.get(key, default): an absent key is None *)
IF_PRESENT(o, default) == IF IsNone(o) THEN default ELSE Get(o)

(* index (1-based) of the first record whose key has the value, 0 when there is
   none: next((i for i, acc in enumerate(accounts) if acc.get(key) == value), None) *)
FirstIndexByEmail(accounts, email) ==
    IF \E i \in 1..Len(accounts) : accounts[i].email = email
    THEN CHOOSE i \in 1..Len(accounts) :
            /\ accounts[i].email = email
            /\ \A j \in 1..(i - 1) : accounts[j].email # email
    ELSE 0

FirstIndexByAccountId(accounts, account_id) ==
    IF \E i \in 1..Len(accounts) : accounts[i].account_id = account_id
    THEN CHOOSE i \in 1..Len(accounts) :
            /\ accounts[i].account_id = account_id
            /\ \A j \in 1..(i - 1) : accounts[j].account_id # account_id
    ELSE 0

-----------------------------------------------------------------------------
(* src/auth.py: the Antigravity credential and its store *)

AntigravityAuth(access_token, refresh_token, expires_at, email, project_id, managed_project_id) ==
    [access_token |-> access_token, refresh_token |-> refresh_token,
     expires_at |-> expires_at, email |-> email, project_id |-> project_id,
     managed_project_id |-> managed_project_id]

(* an expiry test that still passes at the instant the buffer starts *)
is_expired_after(auth, buffer_seconds, t) == t > (auth.expires_at - buffer_seconds)

is_expired(auth, buffer_seconds, t) == t >= (auth.expires_at - buffer_seconds)

AccountStorage(version, accounts, active_index) ==
    [version |-> version, accounts |-> accounts, active_index |-> active_index]

EmptyAccountStorage == AccountStorage(DefaultStorageVersion, <<>>, 0)

get_active_account(storage) ==
    IF 0 <= storage.active_index /\ storage.active_index < Len(storage.accounts)
    THEN Some(storage.accounts[storage.active_index + 1])
    ELSE IF storage.accounts # <<>> THEN Some(storage.accounts[1]) ELSE NoneV

_is_default_project_id(project_id) ==
    project_id # "" /\ project_id = ANTIGRAVITY_DEFAULT_PROJECT_ID

(* the primary path, else the legacy path read in its place, else None *)
load_accounts(d) ==
    IF ~IsNone(d.primary) THEN d.primary
    ELSE IF ~IsNone(d.legacy) THEN d.legacy
    ELSE NoneV

(* always writes the primary path *)
save_accounts(d, storage) == [d EXCEPT !.primary = Some(storage)]

now_ms(t) == t * 1000

(* an upsert that never looks for the record of the account *)
_upsert_always_appending(d, auth, t) ==
    LET loaded == load_accounts(d)
        storage == IF IsNone(loaded) THEN EmptyAccountStorage ELSE Get(loaded)
    IN  save_accounts(d, [storage EXCEPT
            !.accounts = Append(storage.accounts,
                                [email |-> auth.email, refreshToken |-> auth.refresh_token,
                                 projectId |-> auth.project_id,
                                 managedProjectId |-> auth.managed_project_id,
                                 addedAt |-> now_ms(t), lastUsed |-> now_ms(t)]),
            !.active_index = Len(storage.accounts)])

_upsert_account_from_auth(d, auth, t) ==
    LET loaded == load_accounts(d)
        storage == IF IsNone(loaded) THEN EmptyAccountStorage ELSE Get(loaded)
        existing_idx ==
            IF auth.email # ""
            THEN FirstIndexByEmail(storage.accounts, auth.email)
            ELSE 0
        appended ==
            [email |-> auth.email, refreshToken |-> auth.refresh_token,
             projectId |-> auth.project_id,
             managedProjectId |-> auth.managed_project_id,
             addedAt |-> now_ms(t), lastUsed |-> now_ms(t)]
        account == storage.accounts[existing_idx]
        updated ==
            [account EXCEPT
                !.email = IF auth.email # "" THEN auth.email ELSE account.email,
                !.refreshToken = auth.refresh_token,
                !.projectId = auth.project_id,
                !.managedProjectId = auth.managed_project_id,
                !.lastUsed = now_ms(t)]
    IN  IF existing_idx = 0
        THEN save_accounts(d, [storage EXCEPT
                 !.accounts = Append(storage.accounts, appended),
                 !.active_index = Len(storage.accounts)])
        ELSE save_accounts(d, [storage EXCEPT
                 !.accounts[existing_idx] = updated,
                 !.active_index = existing_idx - 1])

_clear_target_idx(storage, auth) ==
    LET by_email ==
            IF auth.email # ""
            THEN FirstIndexByEmail(storage.accounts, auth.email)
            ELSE 0
    IN  IF by_email # 0 THEN by_email
        ELSE IF 0 <= storage.active_index /\ storage.active_index < Len(storage.accounts)
             THEN storage.active_index + 1
             ELSE 0

(* a revocation handler that drops the record instead of scrubbing it *)
_clear_by_removing_the_record(d, auth, t) ==
    LET loaded == load_accounts(d)
        storage == Get(loaded)
        target_idx == _clear_target_idx(storage, auth)
    IN  IF IsNone(loaded) \/ storage.accounts = <<>> THEN d
        ELSE IF target_idx = 0 THEN d
        ELSE save_accounts(d, [storage EXCEPT
                 !.accounts = SubSeq(storage.accounts, 1, target_idx - 1)
                                  \o SubSeq(storage.accounts, target_idx + 1,
                                            Len(storage.accounts))])

_clear_stored_refresh_token(d, auth, t) ==
    LET loaded == load_accounts(d)
        storage == Get(loaded)
        target_idx == _clear_target_idx(storage, auth)
    IN  IF IsNone(loaded) \/ storage.accounts = <<>> THEN d
        ELSE IF target_idx = 0 THEN d
        ELSE save_accounts(d, [storage EXCEPT
                 !.accounts[target_idx].refreshToken = "",
                 !.accounts[target_idx].lastUsed = now_ms(t)])

load_auth_from_storage(d) ==
    LET loaded == load_accounts(d)
        account == get_active_account(Get(loaded))
    IN  IF IsNone(loaded) \/ Get(loaded).accounts = <<>> THEN NoneV
        ELSE IF IsNone(account) THEN NoneV
        ELSE Some(AntigravityAuth("", Get(account).refreshToken, 0,
                                  Get(account).email, Get(account).projectId,
                                  Get(account).managedProjectId))

-----------------------------------------------------------------------------
(* The OAuth token endpoint as the refresh sees it.  A response is
   kind "network" (client.post raises httpx.RequestError) or kind "http";
   an http response has is_success, status_code and, when it is an error,
   the body `payload`; when it is a success, json_ok (response.json() parses)
   and the keys of token_data. *)

ErrorPayload(kind, text, error_type, error, status, code, emessage, error_description, message) ==
    [kind |-> kind, text |-> text, error_type |-> error_type, error |-> error,
     status |-> status, code |-> code, emessage |-> emessage,
     error_description |-> error_description, message |-> message]

NoPayload == ErrorPayload("empty", "", "absent", "", "", "", "", "", "")

TokenResponse(kind, is_success, status_code, payload, json_ok, access_token, refresh_token, expires_in) ==
    [kind |-> kind, is_success |-> is_success, status_code |-> status_code,
     payload |-> payload, json_ok |-> json_ok, access_token |-> access_token,
     refresh_token |-> refresh_token, expires_in |-> expires_in]

NetworkFailure == TokenResponse("network", FALSE, 0, NoPayload, FALSE, NoneV, NoneV, NoneV)

TokenSuccess(access_token, refresh_token, expires_in) ==
    TokenResponse("http", TRUE, 200, NoPayload, TRUE, access_token, refresh_token, expires_in)

MalformedSuccess == TokenResponse("http", TRUE, 200, NoPayload, FALSE, NoneV, NoneV, NoneV)

TokenError(status_code, payload) ==
    TokenResponse("http", FALSE, status_code, payload, FALSE, NoneV, NoneV, NoneV)

(* str.lower() on the error codes the model draws *)
Lower(s) ==
    CASE s = "INVALID_GRANT" -> "invalid_grant"
      [] s = "Invalid_Grant" -> "invalid_grant"
      [] OTHER -> s

(* `a or b` on strings *)
Or(a, b) == IF a # "" THEN a ELSE b

_parse_oauth_error_payload(p) ==
    IF p.kind = "empty" THEN [code |-> "", description |-> ""]
    ELSE IF p.kind = "text" THEN [code |-> "", description |-> p.text]
    ELSE
        LET code == IF p.error_type = "str" THEN p.error
                    ELSE IF p.error_type = "dict" THEN Or(p.status, p.code)
                    ELSE ""
            description == IF p.error_type = "dict" THEN p.emessage ELSE ""
        IN  [code |-> code,
             description |-> Or(description, Or(p.error_description, p.message))]

(* fetch_project_id: the load endpoints in order; a response that is not a
   success, raises, or carries no project is skipped.  `loads` gives, per load
   endpoint, the project the endpoint would answer ("" for none of the above). *)
RECURSIVE fetch_project_id_from(_, _)
fetch_project_id_from(loads, i) ==
    IF i > Len(loads) THEN ""
    ELSE IF loads[i] # "" THEN loads[i]
    ELSE fetch_project_id_from(loads, i + 1)

fetch_project_id(loads) == fetch_project_id_from(loads, 1)

RefreshResult(outcome, auth, d, requests, fetched) ==
    [outcome |-> outcome, auth |-> auth, disk |-> d, requests |-> requests,
     fetched |-> fetched]

(* the classification of a failed Antigravity refresh *)
antigravity_refresh_is_revoked(payload) ==
    Lower(_parse_oauth_error_payload(payload).code) = "invalid_grant"

refreshed_project_id(auth, loads) ==
    LET project_id == auth.project_id
        fetched_project == fetch_project_id(loads)
    IN  IF project_id = "" \/ _is_default_project_id(project_id)
        THEN IF fetched_project # "" THEN fetched_project
             ELSE IF _is_default_project_id(project_id) THEN "" ELSE project_id
        ELSE project_id

(* a refresh that scrubs the stored token on every failure *)
refresh_scrubbing_on_any_failure(d, auth, resp, loads, t) ==
    IF auth.refresh_token = ""
    THEN RefreshResult("missing_refresh_token", auth, d, 0, FALSE)
    ELSE IF resp.kind = "network"
    THEN RefreshResult("network", auth, _clear_stored_refresh_token(d, auth, t), 1, FALSE)
    ELSE RefreshResult("failed", auth, _clear_stored_refresh_token(d, auth, t), 1, FALSE)

(* refresh_access_token(auth) at time t, the token endpoint answering `resp`
   and the load endpoints `loads`.  outcome: "ok" (auth is the refreshed
   credential) or the exception raised (auth is the credential passed in). *)
refresh_access_token(d, auth, resp, loads, t) ==
    IF auth.refresh_token = ""
    THEN RefreshResult("missing_refresh_token", auth, d, 0, FALSE)
    ELSE IF resp.kind = "network"
    THEN RefreshResult("network", auth, d, 1, FALSE)
    ELSE IF ~resp.is_success
    THEN IF antigravity_refresh_is_revoked(resp.payload)
         THEN RefreshResult("revoked", auth, _clear_stored_refresh_token(d, auth, t), 1, FALSE)
         ELSE RefreshResult("failed", auth, d, 1, FALSE)
    ELSE IF ~resp.json_ok
    THEN RefreshResult("malformed", auth, d, 1, FALSE)
    ELSE
        LET access_token == IF_PRESENT(resp.access_token, "")
            refreshed ==
                AntigravityAuth(
                    access_token,
                    IF_PRESENT(resp.refresh_token, auth.refresh_token),
                    t + IF_PRESENT(resp.expires_in, DefaultExpiresIn),
                    auth.email,
                    refreshed_project_id(auth, loads),
                    auth.managed_project_id)
        IN  RefreshResult("ok", refreshed, _upsert_account_from_auth(d, refreshed, t), 1,
                          auth.project_id = "" \/ _is_default_project_id(auth.project_id))

-----------------------------------------------------------------------------
(* src/codex_auth.py: the Codex credential, its store and its refresh.  The
   Codex store has no legacy path: only disk.primary is read and written. *)

CodexAuth(access_token, refresh_token, expires_at, account_id, email) ==
    [access_token |-> access_token, refresh_token |-> refresh_token,
     expires_at |-> expires_at, account_id |-> account_id, email |-> email]

CodexAccount(account_id, refresh_token, email, addedAt, lastUsed) ==
    [account_id |-> account_id, refresh_token |-> refresh_token, email |-> email,
     addedAt |-> addedAt, lastUsed |-> lastUsed]

EmptyCodexAccountStorage == AccountStorage(DefaultCodexStorageVersion, <<>>, 0)

load_codex_accounts(d) == d.primary

save_codex_accounts(d, storage) == [d EXCEPT !.primary = Some(storage)]

(* the account of an access token: the claims of the JWT, "" when the token is
   not a JWT or carries none *)
extract_account_id(access_token) ==
    CASE access_token = "jwt-acc1" -> "acc1"
      [] OTHER -> ""

extract_account_email(access_token) ==
    CASE access_token = "jwt-acc1" -> "a@x"
      [] OTHER -> ""

codex_target_idx(storage, auth) ==
    LET by_id ==
            IF auth.account_id # ""
            THEN FirstIndexByAccountId(storage.accounts, auth.account_id)
            ELSE 0
        by_email ==
            IF auth.email # ""
            THEN FirstIndexByEmail(storage.accounts, auth.email)
            ELSE 0
    IN  IF by_id # 0 THEN by_id ELSE by_email

_upsert_codex_account(d, auth, t) ==
    LET loaded == load_codex_accounts(d)
        storage == IF IsNone(loaded) THEN EmptyCodexAccountStorage ELSE Get(loaded)
        target_idx == codex_target_idx(storage, auth)
        account == storage.accounts[target_idx]
        updated ==
            [account EXCEPT
                !.refresh_token = auth.refresh_token,
                !.lastUsed = now_ms(t),
                !.account_id = IF auth.account_id # "" THEN auth.account_id ELSE @,
                !.email = IF auth.email # "" THEN auth.email ELSE @]
    IN  IF auth.refresh_token = "" THEN d
        ELSE IF target_idx = 0
        THEN save_codex_accounts(d, [storage EXCEPT
                 !.accounts = Append(storage.accounts,
                                     CodexAccount(auth.account_id, auth.refresh_token,
                                                  auth.email, now_ms(t), now_ms(t))),
                 !.active_index = Len(storage.accounts)])
        ELSE save_codex_accounts(d, [storage EXCEPT
                 !.accounts[target_idx] = updated,
                 !.active_index = target_idx - 1])

codex_clear_target_idx(storage, auth) ==
    LET by_identity == codex_target_idx(storage, auth)
    IN  IF by_identity # 0 THEN by_identity
        ELSE IF 0 <= storage.active_index /\ storage.active_index < Len(storage.accounts)
             THEN storage.active_index + 1
             ELSE 0

codex_clear_stored_refresh_token(d, auth, t) ==
    LET loaded == load_codex_accounts(d)
        storage == Get(loaded)
        target_idx == codex_clear_target_idx(storage, auth)
    IN  IF IsNone(loaded) \/ storage.accounts = <<>> THEN d
        ELSE IF target_idx = 0 THEN d
        ELSE save_codex_accounts(d, [storage EXCEPT
                 !.accounts[target_idx].refresh_token = "",
                 !.accounts[target_idx].lastUsed = now_ms(t)])

(* The body of a failed Codex refresh: content_type_json (the content-type
   header starts with application/json), json_ok (the body parses, to a dict),
   the "error" key (a string, or a dict with code and message), the top-level
   "code" and "message" keys, and the raw text. *)
CodexErrorPayload(content_type_json, json_ok, error_type, error, code, emessage, top_code, top_message, text) ==
    [content_type_json |-> content_type_json, json_ok |-> json_ok,
     error_type |-> error_type, error |-> error, code |-> code,
     emessage |-> emessage, top_code |-> top_code, top_message |-> top_message,
     text |-> text]

codex_error_code(p) ==
    LET from_error == IF ~p.content_type_json THEN ""
                      ELSE IF p.error_type = "str" THEN p.error
                      ELSE IF p.error_type = "dict" THEN p.code
                      ELSE ""
    IN  IF from_error # "" THEN from_error
        ELSE IF p.content_type_json THEN p.top_code ELSE ""

codex_error_message(p) ==
    LET from_error == IF ~p.content_type_json THEN ""
                      ELSE IF p.error_type = "str" THEN p.error
                      ELSE IF p.error_type = "dict" THEN p.emessage
                      ELSE ""
    IN  IF from_error # "" THEN from_error
        ELSE Or(IF p.content_type_json THEN p.top_message ELSE "", p.text)

RevokedCodes ==
    {"invalid_grant", "refresh_token_invalidated", "refresh_token_reused",
     "refresh_token_expired"}

(* the messages the model draws that contain, lower-cased, one of the indicators
   "another client", "new token", "refresh token", "token was revoked",
   "token revoked", "token invalidated", "already used", "expired" *)
MessagesWithIndicator ==
    {"Your refresh token has already been used", "Session expired",
     "upstream request expired", "refresh_token_expired"}

_is_revoked_refresh_error(error_code, error_message) ==
    \/ Lower(error_code) \in RevokedCodes
    \/ error_message \in MessagesWithIndicator

codex_refresh_is_revoked(p) ==
    _is_revoked_refresh_error(codex_error_code(p), codex_error_message(p))

(* refresh_codex_token(auth) at time t, the token endpoint answering `resp`
   (resp.payload a CodexErrorPayload when the response is an error) *)
refresh_codex_token(d, auth, resp, t) ==
    IF auth.refresh_token = ""
    THEN RefreshResult("missing_refresh_token", auth, d, 0, FALSE)
    ELSE IF resp.kind = "network"
    THEN RefreshResult("network", auth, d, 1, FALSE)
    ELSE IF ~resp.is_success
    THEN IF resp.payload.content_type_json /\ ~resp.payload.json_ok
         THEN RefreshResult("malformed", auth, d, 1, FALSE)
         ELSE IF codex_refresh_is_revoked(resp.payload)
         THEN RefreshResult("revoked", auth, codex_clear_stored_refresh_token(d, auth, t), 1, FALSE)
         ELSE RefreshResult("failed", auth, d, 1, FALSE)
    ELSE IF ~resp.json_ok
    THEN RefreshResult("malformed", auth, d, 1, FALSE)
    ELSE
        LET access_token == IF_PRESENT(resp.access_token, "")
            refreshed ==
                CodexAuth(
                    access_token,
                    IF_PRESENT(resp.refresh_token, auth.refresh_token),
                    t + IF_PRESENT(resp.expires_in, DefaultExpiresIn),
                    Or(auth.account_id, extract_account_id(access_token)),
                    Or(auth.email, extract_account_email(access_token)))
        IN  RefreshResult("ok", refreshed, _upsert_codex_account(d, refreshed, t), 1, FALSE)

-----------------------------------------------------------------------------
(* src/chat_model.py: one logical call of ChatAntigravity *)

Endpoints == 1..NumEndpoints

(* What a model endpoint does with one request: kind "transport" (client.post /
   client.stream raises httpx.RequestError, no response at all) or kind "http"
   with a status code; body_ok says whether the body of a response parses
   (response.json() and _parse_response of _agenerate). *)
ModelResponse(kind, status_code, body_ok) ==
    [kind |-> kind, status_code |-> status_code, body_ok |-> body_ok]

TransportFailure == ModelResponse("transport", 0, FALSE)

FailureStatusCodes == {400, 401, 403, 404, 429, 500}

ModelResponses ==
    {TransportFailure}
        \cup {ModelResponse("http", c, FALSE) : c \in FailureStatusCodes}
        \cup {ModelResponse("http", 200, ok) : ok \in BOOLEAN}

(* httpx.Response.is_success *)
is_success(status_code) == 200 <= status_code /\ status_code <= 299

_resolve_auth_project_id(o) ==
    IF IsNone(o) THEN "" ELSE Or(Get(o).project_id, Get(o).managed_project_id)

Result(kind, code, endpoint, at_attempt) ==
    [kind |-> kind, code |-> code, endpoint |-> endpoint, at_attempt |-> at_attempt]

NoResult == Result("none", 0, 0, 0)

(* observations, kept beside the program state *)
NoObs ==
    [n_requests |-> 0,           \* model requests sent
     only_429 |-> TRUE,          \* every model request so far was answered 429
     forced_refreshes |-> 0,     \* refresh_access_token calls of the recovery block
     project_fetches |-> 0,      \* fetch_project_id calls of the recovery block
     revoked |-> FALSE,          \* some refresh of the call was classified revoked
     slept |-> FALSE]            \* the code after the last pass slept its backoff

ObsRequest(o, resp) ==
    [o EXCEPT
        !.n_requests = @ + 1,
        !.only_429 = @ /\ resp.kind = "http" /\ resp.status_code = 429]

(* _ensure_auth, the token and load endpoints answering tok and loads *)
_ensure_auth(o, d, tok, loads, t) ==
    LET loaded == IF IsNone(o) THEN load_auth_from_storage(d) ELSE o
        r == refresh_access_token(d, Get(loaded), tok, loads, t)
    IN  IF IsNone(loaded)
        THEN [raised |-> "no_auth", auth |-> loaded, disk |-> d, refreshed |-> FALSE]
        ELSE IF is_expired(Get(loaded), DefaultBufferSeconds, t)
        THEN IF r.outcome = "ok"
             THEN [raised |-> "", auth |-> Some(r.auth), disk |-> r.disk, refreshed |-> TRUE]
             ELSE [raised |-> r.outcome, auth |-> loaded, disk |-> r.disk, refreshed |-> TRUE]
        ELSE [raised |-> "", auth |-> loaded, disk |-> d, refreshed |-> FALSE]

(* inputs the executor's environment is drawn from *)
InvalidGrantPayload ==
    ErrorPayload("json", "", "str", "invalid_grant", "", "", "",
                 "Token has been expired or revoked.", "")
BadGatewayPayload == ErrorPayload("text", "Bad Gateway", "absent", "", "", "", "", "", "")

ExecTokenResponses ==
    {TokenSuccess(Some("at1"), NoneV, NoneV),
     TokenError(400, InvalidGrantPayload),
     NetworkFailure}

ExecLoads == {<<"", "", "">>, <<"", "p1", "">>}

(* an endpoint that is not contacted answers nothing *)
Uncontacted(contacted, answers) == IF contacted THEN answers ELSE {CHOOSE a \in answers : TRUE}

execVars == <<mode, pc, attempt, ep, self_auth, project_override, last_http_error,
              last_status_by_endpoint, chunks, result, obs>>
auxVars == <<ops, expiry, stream, conc, gate>>
lateVars == <<files, listener, slots>>
extVars == <<poll, codex, race, lateVars>>
vars == <<now, disk, execVars, rf, auxVars, extVars>>

(* a component that a specification does not exercise *)
Unused == <<>>

(* whether _ensure_auth, run now, calls refresh_access_token *)
ensure_refreshes ==
    LET loaded == IF IsNone(self_auth) THEN load_auth_from_storage(disk) ELSE self_auth
    IN  ~IsNone(loaded) /\ is_expired(Get(loaded), DefaultBufferSeconds, now)

(* raise out of the call *)
Raise(kind, code) ==
    /\ pc' = "done"
    /\ result' = Result(kind, code, 0, attempt)

(* variants of the `continue` of the endpoint loop: one that leaves the pass,
   one that stays on the endpoint *)
ContinueLeavesThePass ==
    /\ result' = result
    /\ pc' = "after_pass" /\ ep' = ep

ContinueStaysOnEndpoint ==
    /\ result' = result
    /\ pc' = "request" /\ ep' = ep

(* `continue` of the endpoint loop: the next endpoint, or the code after the loop *)
NextEndpoint ==
    /\ result' = result
    /\ IF ep < NumEndpoints
       THEN pc' = "request" /\ ep' = ep + 1
       ELSE pc' = "after_pass" /\ ep' = ep

(* top of the outer loop: auth = await self._ensure_auth() *)
EnsureAuth(tok, loads) ==
    /\ pc = "ensure"
    /\ LET r == _ensure_auth(self_auth, disk, tok, loads, now)
       IN  /\ self_auth' = r.auth
           /\ disk' = r.disk
           /\ obs' = [obs EXCEPT !.revoked = @ \/ r.raised = "revoked", !.slept = FALSE]
           /\ IF r.raised # ""
              THEN Raise(r.raised, 0) /\ ep' = ep
              ELSE pc' = "request" /\ ep' = 1 /\ result' = result
    /\ UNCHANGED <<now, mode, attempt, project_override, last_http_error,
                   last_status_by_endpoint, chunks, rf, auxVars, extVars>>

(* one iteration of the endpoint loop up to its return, raise, continue or, for
   _astream, the opening of the response stream *)
SendRequest(resp) ==
    /\ pc = "request"
    /\ LET code == resp.status_code
           seen == ObsRequest(obs, resp)
       IN  IF resp.kind = "transport"
           THEN \* except httpx.RequestError: continue
                /\ obs' = seen
                /\ NextEndpoint
                /\ UNCHANGED <<last_http_error, last_status_by_endpoint>>
           ELSE /\ last_status_by_endpoint' = [last_status_by_endpoint EXCEPT ![ep] = code]
                /\ IF code = 429 \/ code >= 500
                   THEN \* asyncio.sleep(_retry_after_seconds(...)); continue
                        /\ obs' = seen
                        /\ NextEndpoint
                        /\ UNCHANGED last_http_error
                   ELSE IF code \in {401, 403, 404}
                   THEN /\ obs' = seen
                        /\ last_http_error' = code
                        /\ NextEndpoint
                   ELSE IF ~is_success(code)
                   THEN \* raise_for_status() raises; except httpx.HTTPStatusError
                        /\ obs' = seen
                        /\ last_http_error' = code
                        /\ NextEndpoint
                   ELSE /\ obs' = seen
                        /\ UNCHANGED <<last_http_error, ep>>
                        /\ IF mode = "stream"
                           THEN pc' = "streaming" /\ result' = result
                           ELSE IF resp.body_ok
                           THEN pc' = "done" /\ result' = Result("returned", code, ep, attempt)
                           ELSE pc' = "done" /\ result' = Result("parse_error", code, ep, attempt)
    /\ UNCHANGED <<now, disk, mode, attempt, self_auth, project_override, chunks, rf, auxVars, extVars>>

(* _astream: one step of `async for line in response.aiter_lines()` *)
StreamRead(event) ==
    /\ pc = "streaming"
    /\ CASE event = "chunk" ->
              \* a data line with text parts: yield
              /\ chunks < MaxChunks
              /\ chunks' = chunks + 1
              /\ UNCHANGED <<pc, ep, result>>
         [] event = "done" ->
              \* data: [DONE]
              /\ pc' = "done" /\ result' = Result("returned", 200, ep, attempt)
              /\ UNCHANGED <<chunks, ep>>
         [] event = "eof" ->
              \* the lines end: the `return` after the loop
              /\ pc' = "done" /\ result' = Result("returned", 200, ep, attempt)
              /\ UNCHANGED <<chunks, ep>>
         [] event = "error" ->
              \* the read raises httpx.RequestError: except ...: continue
              /\ NextEndpoint
              /\ UNCHANGED chunks
    /\ UNCHANGED <<now, disk, mode, attempt, self_auth, project_override,
                   last_http_error, last_status_by_endpoint, obs, rf, auxVars, extVars>>

StatusValues == {last_status_by_endpoint[e] : e \in Endpoints} \ {0}

(* the recovery block `if attempt == 0:` *)
forced_refresh_wanted == last_http_error \in {401, 403}

needs_project_refresh(did_retry, o) ==
    /\ ~did_retry
    /\ project_override = ""
    /\ ~IsNone(o)
    /\ (_resolve_auth_project_id(o) = ""
        \/ _resolve_auth_project_id(o) = ANTIGRAVITY_DEFAULT_PROJECT_ID)
    /\ \E st \in StatusValues : st \in {403, 429}

(* a recovery block that runs after every pass *)
recovery_after_every_pass == TRUE

recovery_applies == attempt = 0

rate_limited == \E st \in StatusValues : st = 429

(* whether the recovery block, run now, calls refresh_access_token *)
recovery_refreshes == recovery_applies /\ forced_refresh_wanted /\ ~IsNone(self_auth)

(* an aggregated error that always carries the status of the last HTTP error *)
ExhaustedWithLastError ==
    IF last_http_error # 0
    THEN Result("all_endpoints_failed", last_http_error, 0, attempt)
    ELSE Result("all_endpoints_failed_no_error", 0, 0, attempt)

(* the error raised after the outer loop *)
Exhausted ==
    IF last_http_error # 0
    THEN Result("all_endpoints_failed",
                IF rate_limited THEN 429 ELSE last_http_error, 0, attempt)
    ELSE Result("all_endpoints_failed_no_error", 0, 0, attempt)

(* the code after the endpoint loop, up to the next iteration of the outer loop
   or the final raise *)
AfterPass(tok, loads, exec_loads) ==
    /\ pc = "after_pass"
    /\ LET refresh_tried == recovery_refreshes
           r == refresh_access_token(disk, Get(self_auth), tok, loads, now)
           refreshed == refresh_tried /\ r.outcome = "ok"
           auth1 == IF refreshed THEN Some(r.auth) ELSE self_auth
           disk1 == IF refresh_tried THEN r.disk ELSE disk
           fetch_tried == recovery_applies /\ needs_project_refresh(refreshed, auth1)
           project_id == fetch_project_id(exec_loads)
           auth2 == IF fetch_tried /\ project_id # ""
                    THEN Some([Get(auth1) EXCEPT !.project_id = project_id])
                    ELSE auth1
           did_retry == refreshed \/ (fetch_tried /\ project_id # "")
           sleeps == ~did_retry /\ rate_limited
           seen == [obs EXCEPT
                      !.forced_refreshes = @ + (IF refresh_tried THEN 1 ELSE 0),
                      !.project_fetches = @ + (IF fetch_tried THEN 1 ELSE 0),
                      !.revoked = @ \/ (refresh_tried /\ r.outcome = "revoked"),
                      !.slept = sleeps]
       IN  /\ self_auth' = auth2
           /\ disk' = disk1
           /\ obs' = seen
           /\ IF attempt + 1 < MaxAttempts
              THEN /\ attempt' = attempt + 1
                   /\ pc' = "ensure"
                   /\ result' = result
              ELSE /\ attempt' = attempt
                   /\ pc' = "done"
                   /\ result' = Exhausted
    /\ UNCHANGED <<now, mode, ep, project_override, last_http_error,
                   last_status_by_endpoint, chunks, rf, auxVars, extVars>>

-----------------------------------------------------------------------------
(* The states a call starts from *)

Account(email, refreshToken, projectId, managedProjectId, addedAt, lastUsed) ==
    [email |-> email, refreshToken |-> refreshToken, projectId |-> projectId,
     managedProjectId |-> managedProjectId, addedAt |-> addedAt, lastUsed |-> lastUsed]

Disk(primary, legacy) == [primary |-> primary, legacy |-> legacy]

AccountA == Account("a@x", "rt0", "", "", 0, 0)
AccountB == Account("b@x", "rtb", "pb", "", 0, 0)

(* a call starts with the credential handed to the model (self.auth) or with
   none, the store of the provider as earlier logins left it, and with or
   without a project override.  A call is short against the lifetime of a
   token: time stands still while it runs, so a credential refreshed at the
   top of the first pass stays valid for the later ones. *)
Scenario(auth, d, override) == [auth |-> auth, disk |-> d, override |-> override]

StoreA == AccountStorage(DefaultStorageVersion, <<AccountA>>, 0)

ExecScenarios ==
    {Scenario(NoneV, Disk(Some(StoreA), NoneV), ""),
     Scenario(NoneV, Disk(NoneV, NoneV), "")}

RfRecord(phase, provider, auth, before, outcome, handle, requests, issued) ==
    [phase |-> phase, provider |-> provider, auth |-> auth, before |-> before,
     outcome |-> outcome, handle |-> handle, requests |-> requests, issued |-> issued]

RfIdle == RfRecord("idle", "", NoneV, NoneV, "", NoneV, 0, NoneV)

ExecInit ==
    /\ now = 0
    /\ \E sc \in ExecScenarios :
          self_auth = sc.auth /\ disk = sc.disk /\ project_override = sc.override
    /\ mode \in {"generate", "stream"}
    /\ pc = "ensure"
    /\ attempt = 0
    /\ ep = 1
    /\ last_http_error = 0
    /\ last_status_by_endpoint = [e \in Endpoints |-> 0]
    /\ chunks = 0
    /\ result = NoResult
    /\ obs = NoObs
    /\ rf = RfIdle
    /\ ops = Unused /\ expiry = Unused /\ stream = Unused /\ conc = Unused /\ gate = Unused
    /\ poll = Unused /\ codex = Unused /\ race = Unused
    /\ files = Unused /\ listener = Unused /\ slots = Unused

ExecNext ==
    \/ \E tok \in Uncontacted(ensure_refreshes, ExecTokenResponses),
          loads \in Uncontacted(ensure_refreshes, ExecLoads) : EnsureAuth(tok, loads)
    \/ \E resp \in ModelResponses : SendRequest(resp)
    \/ \E event \in {"chunk", "done", "eof", "error"} : StreamRead(event)
    \/ \E tok \in Uncontacted(recovery_refreshes, ExecTokenResponses),
          loads \in Uncontacted(recovery_refreshes, ExecLoads),
          exec_loads \in Uncontacted(recovery_applies, ExecLoads) :
          AfterPass(tok, loads, exec_loads)

Init == ExecInit
Next == ExecNext
Spec == Init /\ [][Next]_vars

-----------------------------------------------------------------------------
(* One refresh of a credential against a store: refresh_access_token and
   refresh_codex_token applied to every drawn credential, store and answer of
   the token endpoint.  rf.auth is the credential passed in, rf.before the
   files before the call, rf.handle the credential the caller holds after the
   call, rf.outcome how the call ended, rf.requests the token requests sent,
   rf.issued the "refresh_token" key of the token endpoint's answer. *)

InjectiveSeqs(S, n) ==
    {s \in [1..n -> S] : \A i, j \in 1..n : i # j => s[i] # s[j]}

(* the stores earlier logins and removals can leave: up to MaxAccounts records,
   the active index in range, and the store remove_account empties *)
Stores(version, pool) ==
    {AccountStorage(version, <<>>, 0)}
        \cup UNION {{AccountStorage(version, accs, i) : i \in 0..(n - 1), accs \in InjectiveSeqs(pool, n)}
                       : n \in 1..MaxAccounts}

AccountN == Account("", "rtn", "", "", 0, 0)

AntigravityPool == {AccountA, AccountB, AccountN}

AntigravityDisks ==
    {Disk(NoneV, NoneV)}
        \cup {Disk(Some(st), NoneV) : st \in Stores(DefaultStorageVersion, AntigravityPool)}
        \cup {Disk(NoneV, Some(st)) : st \in Stores(DefaultStorageVersion, AntigravityPool)}

AntigravityAuths ==
    {AntigravityAuth("at0", rt, 0, email, project, "") :
        rt \in {"", "rt0"}, email \in {"", "a@x", "c@x"},
        project \in {"", ANTIGRAVITY_DEFAULT_PROJECT_ID, "p0"}}

CodexPool ==
    {CodexAccount("acc1", "rt0", "a@x", 0, 0),
     CodexAccount("acc2", "rtb", "b@x", 0, 0),
     CodexAccount("", "rtn", "", 0, 0)}

CodexDisks ==
    {Disk(NoneV, NoneV)}
        \cup {Disk(Some(st), NoneV) : st \in Stores(DefaultCodexStorageVersion, CodexPool)}

CodexAuths ==
    {CodexAuth("at0", rt, 0, account_id, email) :
        rt \in {"", "rt0"}, account_id \in {"", "acc1", "acc9"},
        email \in {"", "a@x", "b@x"}}

TokenSuccesses ==
    {TokenSuccess(a, r, e) :
        a \in {NoneV, Some("at1"), Some("jwt-acc1")},
        r \in {NoneV, Some("rt1"), Some("")},
        e \in {NoneV, Some(10)}}

AntigravityErrorPayloads ==
    {InvalidGrantPayload,
     ErrorPayload("json", "", "str", "INVALID_GRANT", "", "", "", "", ""),
     ErrorPayload("json", "", "dict", "", "INVALID_GRANT", "", "revoked", "", ""),
     ErrorPayload("json", "", "dict", "", "", "invalid_client", "bad client", "", ""),
     ErrorPayload("json", "", "str", "temporarily_unavailable", "", "", "", "", ""),
     ErrorPayload("json", "", "absent", "", "", "", "", "", "backend error"),
     BadGatewayPayload,
     NoPayload}

AntigravityTokenResponses ==
    TokenSuccesses \cup {MalformedSuccess, NetworkFailure}
        \cup {TokenError(c, p) : c \in {400, 500}, p \in AntigravityErrorPayloads}

CodexErrorPayloads ==
    {CodexErrorPayload(TRUE, TRUE, "str", "invalid_grant", "", "", "", "", "{...}"),
     CodexErrorPayload(TRUE, TRUE, "dict", "", "refresh_token_reused",
                       "Your refresh token has already been used", "", "", "{...}"),
     CodexErrorPayload(TRUE, TRUE, "dict", "", "server_error", "Internal error", "", "", "{...}"),
     CodexErrorPayload(TRUE, TRUE, "absent", "", "", "", "", "Session expired", "{...}"),
     CodexErrorPayload(TRUE, TRUE, "absent", "", "", "", "rate_limited", "", "{...}"),
     CodexErrorPayload(TRUE, FALSE, "absent", "", "", "", "", "", "<html>"),
     CodexErrorPayload(FALSE, FALSE, "absent", "", "", "", "", "", "Bad Gateway"),
     CodexErrorPayload(FALSE, FALSE, "absent", "", "", "", "", "", "upstream request expired")}

CodexTokenResponses ==
    TokenSuccesses \cup {MalformedSuccess, NetworkFailure}
        \cup {TokenError(c, p) : c \in {400, 500}, p \in CodexErrorPayloads}

RefreshInit ==
    /\ now \in 1..MaxNow
    /\ \E provider \in {"antigravity", "codex"} :
          \E auth \in IF provider = "antigravity" THEN AntigravityAuths ELSE CodexAuths :
             /\ disk \in IF provider = "antigravity" THEN AntigravityDisks ELSE CodexDisks
             /\ rf = RfRecord("ready", provider, Some(auth), Some(disk), "", Some(auth), 0, NoneV)
    /\ mode = "generate"
    /\ pc = "idle"
    /\ attempt = 0
    /\ ep = 1
    /\ self_auth = NoneV
    /\ project_override = ""
    /\ last_http_error = 0
    /\ last_status_by_endpoint = [e \in Endpoints |-> 0]
    /\ chunks = 0
    /\ result = NoResult
    /\ obs = NoObs
    /\ ops = Unused /\ expiry = Unused /\ stream = Unused /\ conc = Unused /\ gate = Unused
    /\ poll = Unused /\ codex = Unused /\ race = Unused
    /\ files = Unused /\ listener = Unused /\ slots = Unused

Refreshed(r, resp) ==
    /\ disk' = r.disk
    /\ rf' = [rf EXCEPT !.phase = "done", !.outcome = r.outcome,
                        !.handle = Some(r.auth), !.requests = r.requests,
                        !.issued = resp.refresh_token]
    /\ UNCHANGED <<now, execVars, auxVars, extVars>>

RefreshAntigravity(resp, loads) ==
    /\ rf.phase = "ready"
    /\ rf.provider = "antigravity"
    /\ Refreshed(refresh_access_token(disk, Get(rf.auth), resp, loads, now), resp)

RefreshCodex(resp) ==
    /\ rf.phase = "ready"
    /\ rf.provider = "codex"
    /\ Refreshed(refresh_codex_token(disk, Get(rf.auth), resp, now), resp)

RefreshNext ==
    \/ \E resp \in AntigravityTokenResponses, loads \in ExecLoads : RefreshAntigravity(resp, loads)
    \/ \E resp \in CodexTokenResponses : RefreshCodex(resp)

RefreshSpec == RefreshInit /\ [][RefreshNext]_vars

-----------------------------------------------------------------------------
(* Properties of the Antigravity executor (specification Spec) *)

EndpointRetryable(st) == st = 429 \/ st >= 500
AuthRejection(st) == st \in {401, 403, 404}

(* C1: when an endpoint answers 429 or a status >= 500 the executor backs off
   and does not contact the next-ranked endpoint in that pass.  Stated on the
   first pass, where every entry of the status map was written by the pass:
   a request is about to be sent to an endpoint only if no endpoint ranked
   before it answered 429 or >= 500. *)
C1_NoFailoverAfterRetryableStatus ==
    (attempt = 0 /\ pc = "request")
        => \A e \in 1..(ep - 1) : ~EndpointRetryable(last_status_by_endpoint[e])

(* C2: with A (rank 1) answering 401, 403 or 404 on the first pass, the executor
   goes on to B (rank 2) in that pass; and when B answers with success, the call
   is reading or has returned B's response in that same outer attempt, and no
   forced refresh and no project-id fetch has been performed. *)
C2_RejectionFailsOverToSuccess ==
    (attempt = 0 /\ AuthRejection(last_status_by_endpoint[1]))
        => /\ ep >= 2
           /\ (ep = 2 /\ last_status_by_endpoint[2] = 200)
                 => /\ pc \in {"streaming", "done"}
                    /\ obs.forced_refreshes = 0
                    /\ obs.project_fetches = 0
                    /\ pc = "done" =>
                          /\ result.kind \in {"returned", "parse_error"}
                          /\ result.endpoint = 2
                          /\ result.at_attempt = 0

C2_Witness ==
    /\ pc = "done" /\ mode = "generate"
    /\ last_status_by_endpoint[1] = 403 /\ last_status_by_endpoint[2] = 200
    /\ result = Result("returned", 200, 2, 0)
    /\ obs.n_requests = 2
    /\ obs.forced_refreshes = 0 /\ obs.project_fetches = 0

(* C3: when every request of the call was answered 429, the call ends with the
   aggregated error, raised after the 4th pass (the pass of attempt 3) and not
   before, after every endpoint was asked on each of the 4 passes, and the
   endpoint-to-status map lists 429 for every endpoint. *)
C3_AllRateLimitedAggregates ==
    (pc = "done" /\ obs.only_429 /\ obs.n_requests > 0)
        => /\ result.kind \in {"all_endpoints_failed", "all_endpoints_failed_no_error"}
           /\ result.at_attempt = 3
           /\ obs.n_requests = 4 * NumEndpoints
           /\ \A e \in Endpoints : last_status_by_endpoint[e] = 429

C3_Witness ==
    /\ pc = "done" /\ obs.only_429
    /\ obs.n_requests = 4 * NumEndpoints
    /\ result.kind = "all_endpoints_failed_no_error"
    /\ \A e \in Endpoints : last_status_by_endpoint[e] = 429

(* C4: once a request of the call receives a success status, the executor issues
   no further request: a call that is reading a success response stays on it
   until it returns. *)
C4_SuccessEndsTheCall ==
    [][pc = "streaming" => pc' \in {"streaming", "done"}]_vars

(* the steps a call can still take: the passes left, the position in the pass,
   the chunks the stream can still deliver *)
PassLength == 2 * NumEndpoints + 2

Position ==
    CASE pc = "ensure" -> 0
      [] pc = "request" -> 2 * ep - 1
      [] pc = "streaming" -> 2 * ep
      [] pc = "after_pass" -> 2 * NumEndpoints + 1
      [] OTHER -> 0

Rank ==
    IF pc = "done" THEN 0
    ELSE (4 - attempt) * PassLength - Position + (MaxChunks - chunks)

(* C5: every call terminates: a call that has not ended can always take a step,
   every step brings it nearer to its end (Rank decreases and stays >= 0), it
   makes at most 4 outer passes and at most 4 x NumEndpoints model requests. *)
C5_CallTerminates ==
    /\ [](pc # "done" => ENABLED Next)
    /\ [][/\ Rank' < Rank
          /\ Rank' >= 0
          /\ attempt' < 4
          /\ obs'.n_requests <= 4 * NumEndpoints]_vars

C5_Witness ==
    /\ pc = "done" /\ mode = "stream"
    /\ attempt = 3
    /\ obs.n_requests = 4 * NumEndpoints
    /\ ~obs.only_429
    /\ result.kind = "all_endpoints_failed"

(* C6: on the first outer attempt, if the pass ended without success and any
   endpoint of the pass answered 401 or 403, the executor forces one credential
   refresh before the second pass. *)
C6_AnyAuthFailureForcesRefresh ==
    [][(/\ pc = "after_pass"
        /\ attempt = 0
        /\ \E e \in Endpoints : last_status_by_endpoint[e] \in {401, 403})
          => obs'.forced_refreshes = obs.forced_refreshes + 1]_vars

(* C7: the forced refresh is performed at most once and the project-id fetch at
   most once in a call, and either happens only in the step from the end of the
   first pass to the second pass. *)
C7_RecoveryOnlyAfterFirstPass ==
    [][/\ obs'.forced_refreshes <= 1
       /\ obs'.project_fetches <= 1
       /\ (obs'.forced_refreshes # obs.forced_refreshes
               \/ obs'.project_fetches # obs.project_fetches)
             => (pc = "after_pass" /\ attempt = 0 /\ attempt' = 1 /\ pc' = "ensure")]_vars

C7_Witness ==
    /\ pc = "done" /\ attempt = 3
    /\ obs.forced_refreshes = 1 /\ obs.project_fetches = 1
    /\ result.kind = "all_endpoints_failed"

(* C8: whenever a refresh performed for the call is classified as revoked, the
   call ends with the revocation error. *)
C8_RevocationSurfaces ==
    (pc = "done" /\ obs.revoked) => result.kind = "revoked"

-----------------------------------------------------------------------------
(* Properties of one refresh (specification RefreshSpec) *)

StoreBefore ==
    IF rf.provider = "antigravity" THEN load_accounts(Get(rf.before))
    ELSE load_codex_accounts(Get(rf.before))

StoreAfter ==
    IF rf.provider = "antigravity" THEN load_accounts(disk)
    ELSE load_codex_accounts(disk)

(* the record belongs to the account of the credential *)
SameAccount(acc, auth) ==
    IF rf.provider = "antigravity"
    THEN auth.email # "" /\ acc.email = auth.email
    ELSE \/ auth.account_id # "" /\ acc.account_id = auth.account_id
         \/ auth.email # "" /\ acc.email = auth.email

StoredRefreshToken(acc) ==
    IF rf.provider = "antigravity" THEN acc.refreshToken ELSE acc.refresh_token

Identity(acc) ==
    IF rf.provider = "antigravity" THEN <<acc.email>> ELSE <<acc.account_id, acc.email>>

(* C9: after a refresh classified as revoked the credential the caller holds is
   the one passed in, unchanged; the store has the same number of records, in
   the same order, and the same active index; and when the store holds a record
   of the credential's account, a record of that account has an empty refresh
   token. *)
C9_RevocationScrubsAndKeepsRecord ==
    (rf.phase = "done" /\ rf.outcome = "revoked")
        => /\ rf.handle = rf.auth
           /\ IsNone(StoreAfter) <=> IsNone(StoreBefore)
           /\ ~IsNone(StoreBefore) =>
                 LET before == Get(StoreBefore)
                     after == Get(StoreAfter)
                 IN  /\ Len(after.accounts) = Len(before.accounts)
                     /\ after.active_index = before.active_index
                     /\ \A i \in 1..Len(before.accounts) :
                           Identity(after.accounts[i]) = Identity(before.accounts[i])
                     /\ (\E i \in 1..Len(before.accounts) :
                            SameAccount(before.accounts[i], Get(rf.auth)))
                          => \E i \in 1..Len(before.accounts) :
                                /\ SameAccount(before.accounts[i], Get(rf.auth))
                                /\ StoredRefreshToken(after.accounts[i]) = ""

C9_Witness ==
    /\ rf.phase = "done" /\ rf.outcome = "revoked"
    /\ rf.provider = "codex"
    /\ ~IsNone(StoreBefore)
    /\ Len(Get(StoreBefore).accounts) >= 2
    /\ Get(StoreBefore).active_index = 0
    /\ SameAccount(Get(StoreBefore).accounts[2], Get(rf.auth))
    /\ Get(StoreBefore).accounts[2].refresh_token # ""
    /\ Get(StoreAfter).accounts[2].refresh_token = ""
    /\ Get(rf.handle).access_token = "at0"

TransientOutcomes == {"failed", "network", "malformed"}

(* C10: after a refresh that failed and was classified as transient the files of
   the store are exactly as before the call, the credential the caller holds is
   the one passed in, and exactly one token request was sent. *)
C10_TransientFailureLeavesStore ==
    (rf.phase = "done" /\ rf.outcome \in TransientOutcomes)
        => /\ disk = Get(rf.before)
           /\ rf.handle = rf.auth
           /\ rf.requests = 1

C10_Witness ==
    /\ rf.phase = "done" /\ rf.outcome = "failed"
    /\ rf.provider = "antigravity"
    /\ ~IsNone(StoreBefore)
    /\ \E i \in 1..Len(Get(StoreBefore).accounts) :
          /\ SameAccount(Get(StoreBefore).accounts[i], Get(rf.auth))
          /\ Get(StoreBefore).accounts[i].refreshToken # ""
    /\ disk = Get(rf.before)
    /\ rf.requests = 1

(* the refresh token a successful refresh leaves: the one the answer carries,
   the prior one when it carries none *)
CarriesRefreshToken == ~IsNone(rf.issued) /\ Get(rf.issued) # ""

ExpectedRefreshToken ==
    IF CarriesRefreshToken THEN Get(rf.issued) ELSE Get(rf.auth).refresh_token

(* C11: after a successful refresh the refresh token of the returned credential,
   and of the stored record of the credential's account when the store holds
   one, is the newly issued refresh token when the response carries one and the
   prior refresh token when it carries none. *)
C11_RefreshTokenRotation ==
    (rf.phase = "done" /\ rf.outcome = "ok")
        => /\ Get(rf.handle).refresh_token = ExpectedRefreshToken
           /\ (/\ ~IsNone(StoreAfter)
               /\ \E i \in 1..Len(Get(StoreAfter).accounts) :
                     SameAccount(Get(StoreAfter).accounts[i], Get(rf.handle)))
                 => \E i \in 1..Len(Get(StoreAfter).accounts) :
                       /\ SameAccount(Get(StoreAfter).accounts[i], Get(rf.handle))
                       /\ StoredRefreshToken(Get(StoreAfter).accounts[i]) = ExpectedRefreshToken

Revoked == rf.phase = "done" /\ rf.outcome = "revoked"

(* C34: the revocation scrub never changes the record of an account other
   than the one whose credential was rejected: if no stored record matches the
   identity of the rejected credential, the store is left unchanged *)
C34_ScrubLeavesOtherAccounts ==
    (Revoked /\ ~IsNone(StoreBefore))
        => /\ \A i \in 1..Len(Get(StoreBefore).accounts) :
                 ~SameAccount(Get(StoreBefore).accounts[i], Get(rf.auth))
                     => Get(StoreAfter).accounts[i] = Get(StoreBefore).accounts[i]
           /\ (\A i \in 1..Len(Get(StoreBefore).accounts) :
                  ~SameAccount(Get(StoreBefore).accounts[i], Get(rf.auth)))
                 => disk = Get(rf.before)

(* C35: a revocation scrub clears a stored refresh token only if it is the
   token the provider rejected: a newer refresh token stored for the account
   by another handle or process stays in place *)
C35_ScrubSparesNewerToken ==
    (Revoked /\ ~IsNone(StoreBefore))
        => \A i \in 1..Len(Get(StoreBefore).accounts) :
              (/\ SameAccount(Get(StoreBefore).accounts[i], Get(rf.auth))
               /\ StoredRefreshToken(Get(StoreBefore).accounts[i]) # Get(rf.auth).refresh_token)
                  => StoredRefreshToken(Get(StoreAfter).accounts[i])
                        = StoredRefreshToken(Get(StoreBefore).accounts[i])

-----------------------------------------------------------------------------
(* src/auth.py, src/codex_auth.py, src/copilot_auth.py: the operations on a
   provider's store besides refresh.  Each takes the files and returns the
   files after the call. *)

Max(a, b) == IF a >= b THEN a ELSE b

(* a login that never looks for the record of the account *)
login_always_appending(d, auth, t) ==
    LET loaded == load_accounts(d)
        storage == IF IsNone(loaded) THEN EmptyAccountStorage ELSE Get(loaded)
    IN  save_accounts(d, [storage EXCEPT
            !.accounts = Append(storage.accounts,
                                Account(auth.email, auth.refresh_token, auth.project_id,
                                        auth.managed_project_id, now_ms(t), now_ms(t))),
            !.active_index = Len(storage.accounts)])

(* interactive_login after exchange_token returned `auth` *)
interactive_login(d, auth, t) ==
    LET loaded == load_accounts(d)
        storage == IF IsNone(loaded) THEN EmptyAccountStorage ELSE Get(loaded)
        existing_idx == FirstIndexByEmail(storage.accounts, auth.email)
    IN  IF existing_idx # 0
        THEN save_accounts(d, [storage EXCEPT
                 !.accounts[existing_idx] =
                     Account(auth.email, auth.refresh_token, auth.project_id,
                             auth.managed_project_id,
                             storage.accounts[existing_idx].addedAt, now_ms(t)),
                 !.active_index = existing_idx - 1])
        ELSE save_accounts(d, [storage EXCEPT
                 !.accounts = Append(storage.accounts,
                                     Account(auth.email, auth.refresh_token, auth.project_id,
                                             auth.managed_project_id, now_ms(t), now_ms(t))),
                 !.active_index = Len(storage.accounts)])

set_active_account(d, email) ==
    LET loaded == load_accounts(d)
        storage == Get(loaded)
        i == FirstIndexByEmail(storage.accounts, email)
    IN  IF IsNone(loaded) THEN d
        ELSE IF i = 0 THEN d
        ELSE save_accounts(d, [storage EXCEPT !.active_index = i - 1])

(* accounts.pop(i), i 1-based here *)
Pop(accounts, i) == SubSeq(accounts, 1, i - 1) \o SubSeq(accounts, i + 1, Len(accounts))

(* a removal that leaves the active index as it was *)
reclamp_never(active_index, len) == active_index

(* the active index after a record was popped *)
reclamp(active_index, len) ==
    IF active_index >= len THEN Max(0, len - 1) ELSE active_index

remove_account(d, email) ==
    LET loaded == load_accounts(d)
        storage == Get(loaded)
        i == FirstIndexByEmail(storage.accounts, email)
        accounts == Pop(storage.accounts, i)
    IN  IF IsNone(loaded) THEN d
        ELSE IF i = 0 THEN d
        ELSE save_accounts(d, [storage EXCEPT
                 !.accounts = accounts,
                 !.active_index = reclamp(storage.active_index, Len(accounts))])

(* codex_interactive_login after exchange_codex_token returned `auth` *)
codex_interactive_login(d, auth, t) ==
    LET loaded == load_codex_accounts(d)
        storage == IF IsNone(loaded) THEN EmptyCodexAccountStorage ELSE Get(loaded)
        existing_idx == FirstIndexByAccountId(storage.accounts, auth.account_id)
    IN  IF existing_idx # 0
        THEN save_codex_accounts(d, [storage EXCEPT
                 !.accounts[existing_idx] =
                     CodexAccount(auth.account_id, auth.refresh_token,
                                  Or(auth.email, storage.accounts[existing_idx].email),
                                  storage.accounts[existing_idx].addedAt, now_ms(t)),
                 !.active_index = existing_idx - 1])
        ELSE save_codex_accounts(d, [storage EXCEPT
                 !.accounts = Append(storage.accounts,
                                     CodexAccount(auth.account_id, auth.refresh_token,
                                                  auth.email, now_ms(t), now_ms(t))),
                 !.active_index = Len(storage.accounts)])

set_active_codex_account(d, account_id) ==
    LET loaded == load_codex_accounts(d)
        storage == Get(loaded)
        i == FirstIndexByAccountId(storage.accounts, account_id)
    IN  IF IsNone(loaded) THEN d
        ELSE IF i = 0 THEN d
        ELSE save_codex_accounts(d, [storage EXCEPT !.active_index = i - 1])

remove_codex_account(d, account_id) ==
    LET loaded == load_codex_accounts(d)
        storage == Get(loaded)
        i == FirstIndexByAccountId(storage.accounts, account_id)
        accounts == Pop(storage.accounts, i)
    IN  IF IsNone(loaded) THEN d
        ELSE IF i = 0 THEN d
        ELSE save_codex_accounts(d, [storage EXCEPT
                 !.accounts = accounts,
                 !.active_index = reclamp(storage.active_index, Len(accounts))])

(* src/copilot_auth.py.  provider and enterprise_url are carried through
   unread by every operation below and are left out of the records. *)

DefaultCopilotStorageVersion == 1

CopilotAuth(access_token, expires_at, account_id, login, email) ==
    [access_token |-> access_token, expires_at |-> expires_at,
     account_id |-> account_id, login |-> login, email |-> email]

CopilotAccount(account_id, access_token, expires_at, login, email, addedAt, lastUsed) ==
    [account_id |-> account_id, access_token |-> access_token, expires_at |-> expires_at,
     login |-> login, email |-> email, addedAt |-> addedAt, lastUsed |-> lastUsed]

EmptyCopilotAccountStorage == AccountStorage(DefaultCopilotStorageVersion, <<>>, 0)

load_copilot_accounts(d) == d.primary

save_copilot_accounts(d, storage) == [d EXCEPT !.primary = Some(storage)]

(* the key a Copilot login is stored under *)
copilot_account_id(auth) == Or(auth.account_id, Or(auth.login, Or(auth.email, "unknown")))

(* copilot_interactive_login after exchange_copilot_device_code returned `auth` *)
copilot_interactive_login(d, auth, t) ==
    LET loaded == load_copilot_accounts(d)
        storage == IF IsNone(loaded) THEN EmptyCopilotAccountStorage ELSE Get(loaded)
        account_id == copilot_account_id(auth)
        existing_idx == FirstIndexByAccountId(storage.accounts, account_id)
        payload == CopilotAccount(account_id, auth.access_token, auth.expires_at,
                                  auth.login, auth.email, now_ms(t), now_ms(t))
    IN  IF existing_idx # 0
        THEN save_copilot_accounts(d, [storage EXCEPT
                 !.accounts[existing_idx] = payload,
                 !.active_index = existing_idx - 1])
        ELSE save_copilot_accounts(d, [storage EXCEPT
                 !.accounts = Append(storage.accounts, payload),
                 !.active_index = Len(storage.accounts)])

set_active_copilot_account(d, account_id) ==
    LET loaded == load_copilot_accounts(d)
        storage == Get(loaded)
        i == FirstIndexByAccountId(storage.accounts, account_id)
    IN  IF IsNone(loaded) THEN d
        ELSE IF i = 0 THEN d
        ELSE save_copilot_accounts(d, [storage EXCEPT !.active_index = i - 1])

remove_copilot_account(d, account_id) ==
    LET loaded == load_copilot_accounts(d)
        storage == Get(loaded)
        i == FirstIndexByAccountId(storage.accounts, account_id)
        accounts == Pop(storage.accounts, i)
    IN  IF IsNone(loaded) THEN d
        ELSE IF i = 0 THEN d
        ELSE save_copilot_accounts(d, [storage EXCEPT
                 !.accounts = accounts,
                 !.active_index = reclamp(storage.active_index, Len(accounts))])

-----------------------------------------------------------------------------
(* Specification StoreSpec: one provider's store under any sequence of
   logins, upserts after a refresh, set-active and remove calls. *)

Providers == {"antigravity", "codex", "copilot"}

(* the credentials exchange_token, exchange_codex_token and
   exchange_copilot_device_code return: always with a token, with or without
   the identity of the account *)
LoginAuths(provider) ==
    CASE provider = "antigravity" ->
            {AntigravityAuth("at1", rt, 0, email, "", "") :
                rt \in {"rt1", "rt2"}, email \in {"", "a@x", "b@x"}}
      [] provider = "codex" ->
            {CodexAuth("at1", rt, 0, account_id, email) :
                rt \in {"rt1", "rt2"}, account_id \in {"", "acc1", "acc2"},
                email \in {"", "a@x"}}
      [] OTHER ->
            {CopilotAuth(token, 0, account_id, login, "") :
                token \in {"gt1", "gt2"}, account_id \in {"", "42"},
                login \in {"", "octo"}}

(* the credentials a refresh hands to upsert: the same, and those whose
   refresh token came back empty *)
UpsertAuths(provider) ==
    CASE provider = "antigravity" ->
            LoginAuths(provider) \cup
            {AntigravityAuth("at1", "", 0, email, "", "") : email \in {"", "a@x"}}
      [] provider = "codex" ->
            LoginAuths(provider) \cup
            {CodexAuth("at1", "", 0, account_id, "") : account_id \in {"", "acc1"}}
      [] OTHER -> {}

(* the keys set-active and remove are called with *)
StoreKeys(provider) ==
    CASE provider = "antigravity" -> {"", "a@x", "b@x", "z@x"}
      [] provider = "codex" -> {"", "acc1", "acc2", "acc9"}
      [] OTHER -> {"42", "octo", "unknown", "nobody"}

load_store(provider, d) ==
    CASE provider = "antigravity" -> load_accounts(d)
      [] provider = "codex" -> load_codex_accounts(d)
      [] OTHER -> load_copilot_accounts(d)

login(provider, d, auth, t) ==
    CASE provider = "antigravity" -> interactive_login(d, auth, t)
      [] provider = "codex" -> codex_interactive_login(d, auth, t)
      [] OTHER -> copilot_interactive_login(d, auth, t)

upsert(provider, d, auth, t) ==
    CASE provider = "antigravity" -> _upsert_account_from_auth(d, auth, t)
      [] OTHER -> _upsert_codex_account(d, auth, t)

set_active(provider, d, key) ==
    CASE provider = "antigravity" -> set_active_account(d, key)
      [] provider = "codex" -> set_active_codex_account(d, key)
      [] OTHER -> set_active_copilot_account(d, key)

remove(provider, d, key) ==
    CASE provider = "antigravity" -> remove_account(d, key)
      [] provider = "codex" -> remove_codex_account(d, key)
      [] OTHER -> remove_copilot_account(d, key)

(* the last operation on the store and what it was called with; `repeated`
   when the operation before it was the same call *)
Op(provider, op, auth, key, repeated, before) ==
    [provider |-> provider, op |-> op, auth |-> auth, key |-> key,
     repeated |-> repeated, before |-> before]

(* the executor, no call running *)
ExecAtRest ==
    /\ mode = "generate"
    /\ pc = "idle"
    /\ attempt = 0
    /\ ep = 1
    /\ self_auth = NoneV
    /\ project_override = ""
    /\ last_http_error = 0
    /\ last_status_by_endpoint = [e \in Endpoints |-> 0]
    /\ chunks = 0
    /\ result = NoResult
    /\ obs = NoObs

StoreInit ==
    /\ now = 1
    /\ \E provider \in Providers :
          /\ ops = Op(provider, "", NoneV, "", FALSE, NoneV)
          /\ disk \in {Disk(NoneV, NoneV)} \cup
                      (IF provider = "antigravity" THEN {Disk(NoneV, Some(StoreA))} ELSE {})
    /\ ExecAtRest
    /\ rf = RfIdle
    /\ expiry = Unused /\ stream = Unused /\ conc = Unused /\ gate = Unused
    /\ poll = Unused /\ codex = Unused /\ race = Unused
    /\ files = Unused /\ listener = Unused /\ slots = Unused

StoreSize(d) ==
    IF IsNone(load_store(ops.provider, d)) THEN 0
    ELSE Len(Get(load_store(ops.provider, d)).accounts)

StoreStep(op, auth, key, d) ==
    /\ StoreSize(d) <= MaxAccounts
    /\ disk' = d
    /\ ops' = Op(ops.provider, op, auth, key,
                 ops.op = op /\ ops.auth = auth /\ ops.key = key, Some(disk))
    /\ UNCHANGED <<now, execVars, rf, expiry, stream, conc, gate, extVars>>

Login ==
    \E auth \in LoginAuths(ops.provider) :
        StoreStep("login", Some(auth), "", login(ops.provider, disk, auth, now))

Upsert ==
    \E auth \in UpsertAuths(ops.provider) :
        StoreStep("upsert", Some(auth), "", upsert(ops.provider, disk, auth, now))

SetActive ==
    \E key \in StoreKeys(ops.provider) :
        StoreStep("set_active", NoneV, key, set_active(ops.provider, disk, key))

Remove ==
    \E key \in StoreKeys(ops.provider) :
        StoreStep("remove", NoneV, key, remove(ops.provider, disk, key))

StoreNext == Login \/ Upsert \/ SetActive \/ Remove

StoreSpec == StoreInit /\ [][StoreNext]_vars

-----------------------------------------------------------------------------
(* Specification RemoveSpec: remove_account, remove_codex_account and
   remove_copilot_account applied to the stores that logins and set-active
   calls leave: up to MaxStored records of distinct accounts, any of them
   active. *)

MaxStored == 3

StoredRecord(provider, key) ==
    CASE provider = "antigravity" -> Account(key, "rt1", "", "", 0, 0)
      [] provider = "codex" -> CodexAccount(key, "rt1", "", 0, 0)
      [] OTHER -> CopilotAccount(key, "gt1", 0, "", "", 0, 0)

StoredVersion(provider) ==
    CASE provider = "antigravity" -> DefaultStorageVersion
      [] provider = "codex" -> DefaultCodexStorageVersion
      [] OTHER -> DefaultCopilotStorageVersion

RemoveInit ==
    /\ now = 1
    /\ \E provider \in Providers, n \in 1..MaxStored :
          \E keys \in InjectiveSeqs(StoreKeys(provider) \ {""}, n), active_index \in 0..(n - 1) :
             /\ ops = Op(provider, "", NoneV, "", FALSE, NoneV)
             /\ disk = Disk(Some(AccountStorage(StoredVersion(provider),
                                                [i \in 1..n |-> StoredRecord(provider, keys[i])],
                                                active_index)),
                            NoneV)
    /\ ExecAtRest
    /\ rf = RfIdle
    /\ expiry = Unused /\ stream = Unused /\ conc = Unused /\ gate = Unused
    /\ poll = Unused /\ codex = Unused /\ race = Unused
    /\ files = Unused /\ listener = Unused /\ slots = Unused

RemoveOne(key) ==
    /\ ops.before = NoneV
    /\ disk' = remove(ops.provider, disk, key)
    /\ ops' = Op(ops.provider, "remove", NoneV, key, FALSE, Some(disk))
    /\ UNCHANGED <<now, execVars, rf, expiry, stream, conc, gate, extVars>>

RemoveNext == \E key \in StoreKeys(ops.provider) : RemoveOne(key)

RemoveSpec == RemoveInit /\ [][RemoveNext]_vars

-----------------------------------------------------------------------------
(* Specification ExpirySpec: one credential of one provider, asked whether it
   is expired as the clock advances.  Times are whole seconds. *)

(* CodexAuth.is_expired *)
(* an expiry test that takes expires_at 0 for a token without expiry *)
codex_is_expired_unless_zero(auth, buffer_seconds, t) ==
    auth.expires_at # 0 /\ t >= (auth.expires_at - buffer_seconds)

codex_is_expired(auth, buffer_seconds, t) == t >= (auth.expires_at - buffer_seconds)

(* CopilotAuth.is_expired: expires_at 0 marks a token without expiry *)
copilot_is_expired(auth, buffer_seconds, t) ==
    IF auth.expires_at = 0 THEN FALSE
    ELSE t >= (auth.expires_at - buffer_seconds)

ExpiryAuth(provider, expires_at) ==
    CASE provider = "antigravity" -> AntigravityAuth("at1", "rt1", expires_at, "", "", "")
      [] provider = "codex" -> CodexAuth("at1", "rt1", expires_at, "", "")
      [] OTHER -> CopilotAuth("gt1", expires_at, "", "", "")

provider_is_expired(provider, auth, buffer_seconds, t) ==
    CASE provider = "antigravity" -> is_expired(auth, buffer_seconds, t)
      [] provider = "codex" -> codex_is_expired(auth, buffer_seconds, t)
      [] OTHER -> copilot_is_expired(auth, buffer_seconds, t)

(* the credential, the buffer it is asked with, the last answer of is_expired
   ("" before the first), the time of that answer, and whether an earlier
   answer was already "expired" *)
ExpiryRecord(provider, auth, buffer_seconds, answer, at, was_expired) ==
    [provider |-> provider, auth |-> auth, buffer_seconds |-> buffer_seconds,
     answer |-> answer, at |-> at, was_expired |-> was_expired]

ExpiryInit ==
    /\ now = 0
    /\ \E provider \in Providers, expires_at \in 0..MaxExpiresAt, buffer_seconds \in 0..MaxBuffer :
          expiry = ExpiryRecord(provider, ExpiryAuth(provider, expires_at), buffer_seconds,
                                "", 0, FALSE)
    /\ disk = Disk(NoneV, NoneV)
    /\ ExecAtRest
    /\ rf = RfIdle
    /\ ops = Unused /\ stream = Unused /\ conc = Unused /\ gate = Unused
    /\ poll = Unused /\ codex = Unused /\ race = Unused
    /\ files = Unused /\ listener = Unused /\ slots = Unused

Tick ==
    /\ now < MaxClock
    /\ now' = now + 1
    /\ UNCHANGED <<disk, execVars, rf, auxVars, extVars>>

AskExpired ==
    /\ LET expired == provider_is_expired(expiry.provider, expiry.auth,
                                          expiry.buffer_seconds, now)
       IN  expiry' = [expiry EXCEPT
                         !.answer = IF expired THEN "expired" ELSE "valid",
                         !.at = now,
                         !.was_expired = expiry.answer = "expired"]
    /\ UNCHANGED <<now, disk, execVars, rf, ops, stream, conc, gate, extVars>>

ExpiryNext == Tick \/ AskExpired

ExpirySpec == ExpiryInit /\ [][ExpiryNext]_vars

-----------------------------------------------------------------------------
(* Specification AuthConcSpec: several model calls of one executor object run
   _ensure_auth on its credential (self.auth) at once.  The calls are
   coroutines of one event loop: a call runs until it awaits, which it does
   on the token endpoint and on a lock that is held.  ChatCopilot never
   refreshes (its _ensure_auth raises on an expired credential) and is not
   part of this specification. *)

Callers == 1..NumCallers

NoCaller == 0

(* self.auth is expired or not; _auth_refresh_lock is free or held by a call;
   each call's position; the number of refresh-token exchanges started *)
ConcRecord(provider, expired, lock, cpc, exchanges) ==
    [provider |-> provider, expired |-> expired, lock |-> lock, cpc |-> cpc,
     exchanges |-> exchanges]

AuthConcInit ==
    /\ now = 0
    /\ \E provider \in {"antigravity", "codex"}, expired \in BOOLEAN :
          conc = ConcRecord(provider, expired, NoCaller, [c \in Callers |-> "start"], 0)
    /\ disk = Disk(NoneV, NoneV)
    /\ ExecAtRest
    /\ rf = RfIdle
    /\ ops = Unused /\ expiry = Unused /\ stream = Unused /\ gate = Unused
    /\ poll = Unused /\ codex = Unused /\ race = Unused
    /\ files = Unused /\ listener = Unused /\ slots = Unused

ConcStep(c) == UNCHANGED <<now, disk, execVars, rf, ops, expiry, stream, gate, extVars>>

(* ChatAntigravity._ensure_auth up to its await: nothing between the expiry
   test and the exchange *)
AntigravityEnsureAuth(c) ==
    /\ conc.provider = "antigravity"
    /\ conc.cpc[c] = "start"
    /\ IF conc.expired
       THEN conc' = [conc EXCEPT !.cpc[c] = "exchanging", !.exchanges = @ + 1]
       ELSE conc' = [conc EXCEPT !.cpc[c] = "done"]
    /\ ConcStep(c)

(* ChatCodex._ensure_auth up to its first await: the lock if it is held, the
   exchange otherwise *)
CodexEnsureAuth(c) ==
    /\ conc.provider = "codex"
    /\ conc.cpc[c] = "start"
    /\ IF ~conc.expired
       THEN conc' = [conc EXCEPT !.cpc[c] = "done"]
       ELSE IF conc.lock # NoCaller
       THEN conc' = [conc EXCEPT !.cpc[c] = "waiting"]
       ELSE conc' = [conc EXCEPT !.lock = c, !.cpc[c] = "exchanging", !.exchanges = @ + 1]
    /\ ConcStep(c)

(* ChatCodex._ensure_auth once the lock is its own: the second expiry test *)
CodexLockAcquired(c) ==
    /\ conc.provider = "codex"
    /\ conc.cpc[c] = "waiting"
    /\ conc.lock = NoCaller
    /\ IF conc.expired
       THEN conc' = [conc EXCEPT !.lock = c, !.cpc[c] = "exchanging", !.exchanges = @ + 1]
       ELSE conc' = [conc EXCEPT !.cpc[c] = "done"]
    /\ ConcStep(c)

(* the token endpoint answers: self.auth is replaced, or the call raises; the
   lock, if the call holds it, is released either way *)
ExchangeAnswered(c, ok) ==
    /\ conc.cpc[c] = "exchanging"
    /\ conc' = [conc EXCEPT
                   !.expired = IF ok THEN FALSE ELSE @,
                   !.cpc[c] = IF ok THEN "done" ELSE "raised",
                   !.lock = IF @ = c THEN NoCaller ELSE @]
    /\ ConcStep(c)

AuthConcNext ==
    \E c \in Callers :
        \/ AntigravityEnsureAuth(c)
        \/ CodexEnsureAuth(c)
        \/ CodexLockAcquired(c)
        \/ \E ok \in BOOLEAN : ExchangeAnswered(c, ok)

AuthConcSpec == AuthConcInit /\ [][AuthConcNext]_vars

-----------------------------------------------------------------------------
(* Specification GateSpec: the calls of one process, streaming or not, send
   their model requests through _ANTIGRAVITY_HTTP_SEMAPHORE. *)

_DEFAULT_MAX_CONCURRENCY == 2

(* ANTIGRAVITY_MAX_CONCURRENCY in the environment: unset, or set to text that
   is or is not an integer *)
EnvSetting(is_set, is_int, n) == [is_set |-> is_set, is_int |-> is_int, n |-> n]

EnvSettings ==
    {EnvSetting(FALSE, FALSE, 0), EnvSetting(TRUE, FALSE, 0)} \cup
    {EnvSetting(TRUE, TRUE, n) : n \in -1..MaxConfigured}

(* _MAX_CONCURRENCY: int() of the setting, the default when it is unset or
   int() raises, and at least 1 *)
_MAX_CONCURRENCY(env) ==
    Max(1, IF env.is_set /\ env.is_int THEN env.n ELSE _DEFAULT_MAX_CONCURRENCY)

Calls == 1..NumCalls

(* asyncio.Semaphore.locked *)
never_locked(value) == FALSE

locked(value) == value = 0

(* the setting, the limit made of it, the semaphore's counter, and each
   call's kind and position: "loop" at the head of the endpoint loop,
   "waiting" for the semaphore, "open" with its request sent and the
   semaphore held, "done" *)
GateRecord(env, limit, value, kind, gpc) ==
    [env |-> env, limit |-> limit, value |-> value, kind |-> kind, gpc |-> gpc]

GateInit ==
    /\ now = 0
    /\ \E env \in EnvSettings, kind \in [Calls -> {"generate", "stream"}] :
          gate = GateRecord(env, _MAX_CONCURRENCY(env), _MAX_CONCURRENCY(env), kind,
                            [c \in Calls |-> "loop"])
    /\ disk = Disk(NoneV, NoneV)
    /\ ExecAtRest
    /\ rf = RfIdle
    /\ ops = Unused /\ expiry = Unused /\ stream = Unused /\ conc = Unused
    /\ poll = Unused /\ codex = Unused /\ race = Unused
    /\ files = Unused /\ listener = Unused /\ slots = Unused

GateStep == UNCHANGED <<now, disk, execVars, rf, ops, expiry, stream, conc, extVars>>

(* async with _ANTIGRAVITY_HTTP_SEMAPHORE: the request is sent at once when
   the semaphore is not locked, and the call waits otherwise *)
GateEnter(c) ==
    /\ gate.gpc[c] = "loop"
    /\ IF locked(gate.value)
       THEN gate' = [gate EXCEPT !.gpc[c] = "waiting"]
       ELSE gate' = [gate EXCEPT !.value = @ - 1, !.gpc[c] = "open"]
    /\ GateStep

(* a waiting call is woken when a slot is free, and sends its request *)
GateWake(c) ==
    /\ gate.gpc[c] = "waiting"
    /\ ~locked(gate.value)
    /\ gate' = [gate EXCEPT !.value = @ - 1, !.gpc[c] = "open"]
    /\ GateStep

(* the request is over: the answer of client.post has arrived, or the block
   of client.stream was left (status handled, lines read); the semaphore is
   released and the call goes on to the next endpoint or ends *)
GateLeave(c, again) ==
    /\ gate.gpc[c] = "open"
    /\ gate' = [gate EXCEPT !.value = @ + 1,
                            !.gpc[c] = IF again THEN "loop" ELSE "done"]
    /\ GateStep

GateNext ==
    \E c \in Calls :
        \/ GateEnter(c)
        \/ GateWake(c)
        \/ \E again \in BOOLEAN : GateLeave(c, again)

GateSpec == GateInit /\ [][GateNext]_vars

-----------------------------------------------------------------------------
(* Specification SlotsSpec: the gated requests of _agenerate and _astream
   with their exits and their backoff sleeps.  slots.value is the counter of
   _ANTIGRAVITY_HTTP_SEMAPHORE, and for each call slots.kind is "generate" or
   "stream", slots.pos its position ("loop" at the head of the endpoint loop,
   "waiting" for the semaphore, "open" with its request sent, "sleeping" in
   asyncio.sleep, "done"), slots.held whether it is inside the block of the
   semaphore, slots.left the requests it still may send, slots.waited whether
   its last request had to wait.  A waiting call is woken in any order, which
   includes the order of arrival the semaphore keeps. *)

NumGated == 2
MaxPasses == 2

Gated == 1..NumGated

(* what a request ends with: a success, a 429 or 5xx, a 401, 403 or 404,
   another failure status (raise_for_status raises), a transport failure
   (httpx.RequestError), any other exception *)
GateAnswers == {"ok", "retryable", "denied", "status", "transport", "exception"}

(* a block of the semaphore that is left only when the request succeeded *)
leaves_block_on_success(kind, answer) == answer = "ok"

(* whether the answer takes the call out of "async with
   _ANTIGRAVITY_HTTP_SEMAPHORE": _agenerate holds it for client.post alone;
   _astream handles the status inside it, and sleeps there on a 429 or 5xx
   before its continue leaves the block *)
leaves_block(kind, answer) == kind = "generate" \/ answer # "retryable"

(* the answers after which the call sleeps before the next endpoint *)
backs_off(answer) == answer = "retryable"

(* the answers that end the call: a success returns, an exception that no
   handler of the loop catches propagates *)
ends_call(answer) == answer \in {"ok", "exception"}

SlotsRecord(limit, value, kind, pos, held, left, waited) ==
    [limit |-> limit, value |-> value, kind |-> kind, pos |-> pos, held |-> held,
     left |-> left, waited |-> waited]

SlotsInit ==
    /\ now = 0
    /\ \E env \in {EnvSetting(FALSE, FALSE, 0), EnvSetting(TRUE, TRUE, 1)},
          kind \in [Gated -> {"generate", "stream"}] :
          slots = SlotsRecord(_MAX_CONCURRENCY(env), _MAX_CONCURRENCY(env), kind,
                              [c \in Gated |-> "loop"], [c \in Gated |-> FALSE],
                              [c \in Gated |-> MaxPasses], [c \in Gated |-> FALSE])
    /\ disk = Disk(NoneV, NoneV)
    /\ ExecAtRest
    /\ rf = RfIdle
    /\ ops = Unused /\ expiry = Unused /\ stream = Unused /\ conc = Unused /\ gate = Unused
    /\ poll = Unused /\ codex = Unused /\ race = Unused
    /\ files = Unused /\ listener = Unused

SlotsStep == UNCHANGED <<now, disk, execVars, rf, auxVars, poll, codex, race, files, listener>>

(* async with _ANTIGRAVITY_HTTP_SEMAPHORE at the next endpoint *)
SlotEnter(c) ==
    /\ slots.pos[c] = "loop"
    /\ IF locked(slots.value)
       THEN slots' = [slots EXCEPT !.pos[c] = "waiting", !.waited[c] = TRUE]
       ELSE slots' = [slots EXCEPT !.value = @ - 1, !.pos[c] = "open", !.held[c] = TRUE,
                                   !.left[c] = @ - 1, !.waited[c] = FALSE]
    /\ SlotsStep

(* a waiting call is woken when a slot is free, and sends its request *)
SlotWake(c) ==
    /\ slots.pos[c] = "waiting"
    /\ ~locked(slots.value)
    /\ slots' = [slots EXCEPT !.value = @ - 1, !.pos[c] = "open", !.held[c] = TRUE,
                              !.left[c] = @ - 1]
    /\ SlotsStep

(* where a call goes on after a request: the next endpoint or attempt, or the
   end of the call when none is left *)
AfterRequest(c) == IF slots.left[c] > 0 THEN "loop" ELSE "done"

(* the request of the call is over *)
SlotAnswered(c, answer) ==
    /\ slots.pos[c] = "open"
    /\ LET out == leaves_block(slots.kind[c], answer)
       IN  slots' = [slots EXCEPT
                        !.value = IF out THEN @ + 1 ELSE @,
                        !.held[c] = ~out,
                        !.pos[c] = IF ends_call(answer) THEN "done"
                                   ELSE IF backs_off(answer) THEN "sleeping"
                                   ELSE AfterRequest(c)]
    /\ SlotsStep

(* asyncio.sleep returns and the loop continues, leaving the block of the
   semaphore when the sleep was inside it *)
SlotSleepEnds(c) ==
    /\ slots.pos[c] = "sleeping"
    /\ slots' = [slots EXCEPT
                    !.value = IF slots.held[c] THEN @ + 1 ELSE @,
                    !.held[c] = FALSE,
                    !.pos[c] = AfterRequest(c)]
    /\ SlotsStep

SlotsNext ==
    \E c \in Gated :
        \/ SlotEnter(c)
        \/ SlotWake(c)
        \/ \E answer \in GateAnswers : SlotAnswered(c, answer)
        \/ SlotSleepEnds(c)

SlotsSpec == SlotsInit /\ [][SlotsNext]_vars

(* the event loop runs every task that can run, every request is answered or
   fails within the client's timeout, and every sleep ends *)
SlotsFairSpec ==
    /\ SlotsInit
    /\ [][SlotsNext]_vars
    /\ \A c \in Gated :
          /\ WF_vars(SlotEnter(c))
          /\ WF_vars(SlotWake(c))
          /\ WF_vars(\E answer \in GateAnswers : SlotAnswered(c, answer))
          /\ WF_vars(SlotSleepEnds(c))

-----------------------------------------------------------------------------
(* Specification StreamSpec: _astream of ChatAntigravity and of ChatCodex
   reading the lines of a response that was opened with a success status. *)

SeqsUpTo(S, n) == UNION {[1..k -> S] : k \in 0..n}

(* a line of an Antigravity response: not a data line, the completion marker,
   data that is not JSON, or a chunk whose first candidate has the given
   parts (none when there is no candidate) *)
Part(text, thought) == [text |-> text, thought |-> thought]

Parts == {Part("a", FALSE), Part("b", FALSE), Part("t", TRUE)}

AntigravityLines ==
    {[kind |-> k, parts |-> <<>>] : k \in {"other", "done", "badjson"}} \cup
    {[kind |-> "data", parts |-> ps] : ps \in SeqsUpTo(Parts, MaxParts)}

(* a line of a Codex response: the same three, an event of another type, a
   response.output_text.delta with its text, or a response.output_item.delta
   with the texts of its blocks ("" for a block that carries none) *)
CodexLines ==
    {[kind |-> k, parts |-> <<>>] : k \in {"other", "done", "badjson", "event"}} \cup
    {[kind |-> "delta", parts |-> <<t>>] : t \in {"", "a", "b"}} \cup
    {[kind |-> "item", parts |-> ts] : ts \in SeqsUpTo({"", "a"}, MaxParts)}

(* the chunks one Antigravity line yields: the text of each part that is not
   a thought *)
antigravity_yields(line) ==
    IF line.kind = "data"
    THEN LET shown == SelectSeq(line.parts, LAMBDA part : ~part.thought)
         IN  [i \in 1..Len(shown) |-> shown[i].text]
    ELSE <<>>

(* the chunks one Codex line yields: the non-empty text of a delta, or the
   non-empty texts of the blocks of an item delta *)
codex_yields(line) ==
    IF line.kind \in {"delta", "item"}
    THEN SelectSeq(line.parts, LAMBDA text : text # "")
    ELSE <<>>

yields(provider, line) ==
    IF provider = "antigravity" THEN antigravity_yields(line) ELSE codex_yields(line)

(* what follows the loop over the lines in ChatCodex._astream *)
codex_end_always_raises(saw_any_delta) == "raised"

codex_end_of_lines(saw_any_delta) == IF saw_any_delta THEN "returned" ELSE "raised"

(* what follows the loop over the lines in ChatAntigravity._astream *)
antigravity_end_of_lines == "returned"

(* the response, the number of lines read, the chunks handed to the caller,
   saw_any_delta, and how the call ended ("" while it reads) *)
StreamRecord(provider, lines, pos, delivered, saw_any_delta, outcome) ==
    [provider |-> provider, lines |-> lines, pos |-> pos, delivered |-> delivered,
     saw_any_delta |-> saw_any_delta, outcome |-> outcome]

StreamInit ==
    /\ now = 0
    /\ \E provider \in {"antigravity", "codex"} :
          \E lines \in SeqsUpTo(IF provider = "antigravity" THEN AntigravityLines
                                ELSE CodexLines, MaxLines) :
             stream = StreamRecord(provider, lines, 0, <<>>, FALSE, "")
    /\ disk = Disk(NoneV, NoneV)
    /\ ExecAtRest
    /\ rf = RfIdle
    /\ ops = Unused /\ expiry = Unused /\ conc = Unused /\ gate = Unused
    /\ poll = Unused /\ codex = Unused /\ race = Unused
    /\ files = Unused /\ listener = Unused /\ slots = Unused

StreamStep == UNCHANGED <<now, disk, execVars, rf, ops, expiry, conc, gate, extVars>>

(* one turn of `async for line in response.aiter_lines()` *)
StreamLine ==
    /\ stream.outcome = ""
    /\ stream.pos < Len(stream.lines)
    /\ LET line == stream.lines[stream.pos + 1]
           yielded == yields(stream.provider, line)
       IN  IF line.kind = "done"
           THEN stream' = [stream EXCEPT !.pos = @ + 1, !.outcome = "returned"]
           ELSE stream' = [stream EXCEPT
                              !.pos = @ + 1,
                              !.delivered = @ \o yielded,
                              !.saw_any_delta = @ \/ (stream.provider = "codex" /\ yielded # <<>>)]
    /\ StreamStep

(* the response has no more lines *)
StreamEnds ==
    /\ stream.outcome = ""
    /\ stream.pos = Len(stream.lines)
    /\ stream' = [stream EXCEPT
                     !.outcome = IF stream.provider = "antigravity"
                                 THEN antigravity_end_of_lines
                                 ELSE codex_end_of_lines(stream.saw_any_delta)]
    /\ StreamStep

StreamNext == StreamLine \/ StreamEnds

StreamSpec == StreamInit /\ [][StreamNext]_vars

-----------------------------------------------------------------------------
(* Specification PollSpec: the polling loop of exchange_copilot_device_code.
   Intervals are whole seconds as in the code; what the server sends and what
   the loop sleeps are in milliseconds, so that a fractional number of
   seconds can be sent. *)

OAUTH_POLLING_SAFETY_MARGIN_MS == 3000

SlowDownIncrement == 5

DefaultPollInterval == 5

(* max(1, int(interval or 5)) *)
initial_interval(interval) == Max(1, IF interval = 0 THEN DefaultPollInterval ELSE interval)

(* the "interval" member of a payload: absent, not a number, or a number of
   milliseconds *)
ServerInterval(present, is_number, ms) == [present |-> present, is_number |-> is_number, ms |-> ms]

NoServerInterval == ServerInterval(FALSE, FALSE, 0)

ServerIntervals ==
    {NoServerInterval, ServerInterval(TRUE, FALSE, 0)} \cup
    {ServerInterval(TRUE, TRUE, h * 500) : h \in -1..(2 * MaxServerInterval)}

(* int() of a positive number of seconds *)
int_seconds(ms) == ms \div 1000

(* the interval after a slow_down that does not use what the server sent *)
slow_down_fixed_increment(interval_seconds, server_interval) ==
    Max(1, interval_seconds + SlowDownIncrement)

(* the interval after a slow_down *)
slow_down_interval(interval_seconds, server_interval) ==
    Max(1, IF server_interval.present /\ server_interval.is_number /\ server_interval.ms > 0
           THEN int_seconds(server_interval.ms)
           ELSE interval_seconds + SlowDownIncrement)

sleep_ms(interval_seconds) == (interval_seconds * 1000) + OAUTH_POLLING_SAFETY_MARGIN_MS

(* what one poll gets: no answer, a failure status, a token, or a payload
   without token, whose "error" is "" when it has none *)
PollAnswer(kind, error, server_interval) ==
    [kind |-> kind, error |-> error, server_interval |-> server_interval]

PollAnswers ==
    {PollAnswer(k, "", NoServerInterval) : k \in {"unreachable", "failure_status", "token"}} \cup
    {PollAnswer("payload", e, NoServerInterval) :
        e \in {"", "authorization_pending", "access_denied", "expired_token"}} \cup
    {PollAnswer("payload", "slow_down", i) : i \in ServerIntervals}

(* an error code that is neither of the two the loop goes on after *)
no_terminal_error(error) == FALSE

terminal_error(error) == error # "" /\ error \notin {"authorization_pending", "slow_down"}

(* the interval in effect, how the loop ended ("" while it polls), and for
   each poll so far: its answer, the interval before it, the interval after
   it was handled, and the sleep that followed (0 for none) *)
PollRecord(interval_seconds, outcome, answers, before, after, sleeps) ==
    [interval_seconds |-> interval_seconds, outcome |-> outcome, answers |-> answers,
     before |-> before, after |-> after, sleeps |-> sleeps]

PollInit ==
    /\ now = 0
    /\ \E interval \in 0..MaxInitialInterval :
          poll = PollRecord(initial_interval(interval), "", <<>>, <<>>, <<>>, <<>>)
    /\ disk = Disk(NoneV, NoneV)
    /\ ExecAtRest
    /\ rf = RfIdle
    /\ ops = Unused /\ expiry = Unused /\ stream = Unused /\ conc = Unused /\ gate = Unused
    /\ codex = Unused /\ race = Unused
    /\ files = Unused /\ listener = Unused /\ slots = Unused

(* one turn of `while True`: the request, its answer, and the sleep *)
Poll(answer) ==
    /\ poll.outcome = ""
    /\ Len(poll.answers) < MaxPolls
    /\ LET goes_on == /\ answer.kind = "payload"
                      /\ ~terminal_error(answer.error)
           interval_seconds ==
               IF answer.kind = "payload" /\ answer.error = "slow_down"
               THEN slow_down_interval(poll.interval_seconds, answer.server_interval)
               ELSE poll.interval_seconds
       IN  poll' = [poll EXCEPT
                       !.interval_seconds = interval_seconds,
                       !.outcome = CASE answer.kind = "token" -> "token"
                                     [] goes_on -> ""
                                     [] OTHER -> "raised",
                       !.answers = Append(@, answer),
                       !.before = Append(@, poll.interval_seconds),
                       !.after = Append(@, interval_seconds),
                       !.sleeps = Append(@, IF goes_on THEN sleep_ms(interval_seconds) ELSE 0)]
    /\ UNCHANGED <<now, disk, execVars, rf, auxVars, codex, race, lateVars>>

PollNext == \E answer \in PollAnswers : Poll(answer)

PollSpec == PollInit /\ [][PollNext]_vars

-----------------------------------------------------------------------------
(* Specification PollLiveSpec: the same loop without its history, one turn in
   two steps, the request being sent and its answer being handled (with the
   sleep that follows).  The client's timeout makes every request end with an
   answer or with httpx.RequestError, and every sleep ends: both steps are
   weakly fair.  Which answer the provider gives is not constrained.  The
   interval is kept within MaxPollInterval by the answers drawn. *)

MaxPollInterval == 12

PollTurn(interval_seconds, ppc, outcome, last) ==
    [interval_seconds |-> interval_seconds, pc |-> ppc, outcome |-> outcome, last |-> last]

PollLiveInit ==
    /\ now = 0
    /\ \E interval \in 0..MaxInitialInterval :
          poll = PollTurn(initial_interval(interval), "request", "",
                          PollAnswer("none", "", NoServerInterval))
    /\ disk = Disk(NoneV, NoneV)
    /\ ExecAtRest
    /\ rf = RfIdle
    /\ ops = Unused /\ expiry = Unused /\ stream = Unused /\ conc = Unused /\ gate = Unused
    /\ codex = Unused /\ race = Unused
    /\ files = Unused /\ listener = Unused /\ slots = Unused

PollLiveStep == UNCHANGED <<now, disk, execVars, rf, auxVars, codex, race, lateVars>>

(* response = await client.post(...) is started *)
PollSend ==
    /\ poll.pc = "request"
    /\ poll' = [poll EXCEPT !.pc = "awaiting"]
    /\ PollLiveStep

(* the rest of the turn of `while True` *)
PollAnswered(answer) ==
    /\ poll.pc = "awaiting"
    /\ LET goes_on == /\ answer.kind = "payload"
                      /\ ~terminal_error(answer.error)
           interval_seconds ==
               IF answer.kind = "payload" /\ answer.error = "slow_down"
               THEN slow_down_interval(poll.interval_seconds, answer.server_interval)
               ELSE poll.interval_seconds
       IN  /\ interval_seconds <= MaxPollInterval
           /\ poll' = PollTurn(interval_seconds,
                               IF goes_on THEN "request" ELSE "done",
                               CASE answer.kind = "token" -> "token"
                                 [] goes_on -> ""
                                 [] OTHER -> "raised",
                               answer)
    /\ PollLiveStep

PollLiveNext == PollSend \/ \E answer \in PollAnswers : PollAnswered(answer)

PollLiveSpec ==
    /\ PollLiveInit
    /\ [][PollLiveNext]_vars
    /\ WF_vars(PollSend)
    /\ WF_vars(\E answer \in PollAnswers : PollAnswered(answer))

-----------------------------------------------------------------------------
(* Specification FileSpec: two processes run _upsert_account_from_auth on the
   same accounts.json at once.  The file is the text json.dump wrote, a
   sequence of units: the version, one unit per account, the active index.
   save_accounts opens the file with mode "w", which empties it, and writes
   the document when the block closes the file, at the start of the file as
   the descriptor of this process counts it.  files.text is the file,
   files.proc[p] the position of process p ("start", "loaded", "opened",
   "saved") with the document it built, files.order the processes in the
   order of their writes. *)

Processes == {1, 2}

(* json.dump(data, f, indent=2) *)
json_dump(storage) ==
    <<[key |-> "version", value |-> storage.version]>>
        \o [i \in 1..Len(storage.accounts) |-> [key |-> "account", value |-> storage.accounts[i]]]
        \o <<[key |-> "activeIndex", value |-> storage.active_index]>>

well_formed(text) ==
    /\ Len(text) >= 2
    /\ text[1].key = "version"
    /\ text[Len(text)].key = "activeIndex"
    /\ \A i \in 2..(Len(text) - 1) : text[i].key = "account"

(* json.load with the JSONDecodeError load_accounts turns into None; the
   legacy path is absent *)
load_accounts_file(text) ==
    IF well_formed(text)
    THEN Some(AccountStorage(text[1].value,
                             [i \in 1..(Len(text) - 2) |-> text[i + 1].value],
                             text[Len(text)].value))
    ELSE NoneV

ProcessAuth(p, email) == AntigravityAuth("at", IF p = 1 THEN "rt1" ELSE "rt2", 3600, email, "", "")

FileProc(ppc, auth, doc) == [pc |-> ppc, auth |-> auth, doc |-> doc]

FileInit ==
    /\ now = 0
    /\ \E storage \in Stores(DefaultStorageVersion, {AccountA, AccountB}), email \in {"a@x", "b@x"} :
          /\ storage.accounts # <<>>
          /\ files = [text |-> json_dump(storage),
                      proc |-> [p \in Processes |->
                                   FileProc("start", ProcessAuth(p, IF p = 1 THEN "a@x" ELSE email), <<>>)],
                      order |-> <<>>]
    /\ disk = Disk(NoneV, NoneV)
    /\ ExecAtRest
    /\ rf = RfIdle
    /\ ops = Unused /\ expiry = Unused /\ stream = Unused /\ conc = Unused /\ gate = Unused
    /\ poll = Unused /\ codex = Unused /\ race = Unused
    /\ listener = Unused /\ slots = Unused

FileStep == UNCHANGED <<now, disk, execVars, rf, auxVars, poll, codex, race, listener, slots>>

(* load_accounts() or AccountStorage(), and the change of the account in memory *)
FileLoad(p) ==
    /\ files.proc[p].pc = "start"
    /\ LET d == Disk(load_accounts_file(files.text), NoneV)
           saved == _upsert_account_from_auth(d, files.proc[p].auth, now)
       IN  files' = [files EXCEPT !.proc[p].pc = "loaded",
                                  !.proc[p].doc = json_dump(Get(saved.primary))]
    /\ FileStep

(* open(path, "w") *)
FileOpen(p) ==
    /\ files.proc[p].pc = "loaded"
    /\ files' = [files EXCEPT !.proc[p].pc = "opened", !.text = <<>>]
    /\ FileStep

(* the write of the buffered document at offset 0 when the file is closed *)
FileWrite(p) ==
    /\ files.proc[p].pc = "opened"
    /\ LET doc == files.proc[p].doc
       IN  files' = [files EXCEPT
                        !.proc[p].pc = "saved",
                        !.text = doc \o SubSeq(@, Len(doc) + 1, Len(@)),
                        !.order = Append(@, p)]
    /\ FileStep

FileNext == \E p \in Processes : FileLoad(p) \/ FileOpen(p) \/ FileWrite(p)

FileSpec == FileInit /\ [][FileNext]_vars

-----------------------------------------------------------------------------
(* Specification ListenerSpec: the local listener of interactive_login and
   codex_interactive_login.  A thread runs server.handle_request, which
   serves one request and returns; the login joins the thread for at most 120
   seconds, closes the server and looks at the code and state the handler
   stored.  Time is counted in ticks of the wait, MaxWait of them making the
   120 seconds.  listener.thread is "serving" until handle_request returned,
   listener.answers the status each request that arrived was answered with
   (0 for a request that nobody served), listener.outcome "" while the login
   waits, then "exchange" or "timed_out". *)

MaxWait == 3
MaxRequests == 2

CallbackPath(provider) ==
    IF provider = "antigravity" THEN "/oauth-callback" ELSE "/auth/callback"

ListenerPaths == {"/oauth-callback", "/auth/callback", "/favicon.ico"}

ListenerRecord(provider, thread, code, state, elapsed, answers, callbacks, outcome) ==
    [provider |-> provider, thread |-> thread, code |-> code, state |-> state,
     elapsed |-> elapsed, answers |-> answers, callbacks |-> callbacks,
     outcome |-> outcome]

ListenerInit ==
    /\ now = 0
    /\ \E provider \in {"antigravity", "codex"} :
          listener = ListenerRecord(provider, "serving", "", "", 0, <<>>, 0, "")
    /\ disk = Disk(NoneV, NoneV)
    /\ ExecAtRest
    /\ rf = RfIdle
    /\ ops = Unused /\ expiry = Unused /\ stream = Unused /\ conc = Unused /\ gate = Unused
    /\ poll = Unused /\ codex = Unused /\ race = Unused
    /\ files = Unused /\ slots = Unused

ListenerStep == UNCHANGED <<now, disk, execVars, rf, auxVars, poll, codex, race, files, slots>>

(* a GET arrives at the port while the server is open: do_GET when the thread
   is still in handle_request, which then returns; nothing otherwise *)
ListenerRequest(path, code, state) ==
    /\ listener.outcome = ""
    /\ Len(listener.answers) < MaxRequests
    /\ LET callback == path = CallbackPath(listener.provider)
       IN  IF listener.thread = "serving"
           THEN listener' = [listener EXCEPT
                    !.code = IF callback THEN code ELSE @,
                    !.state = IF callback THEN state ELSE @,
                    !.answers = Append(@, IF callback THEN 200 ELSE 404),
                    !.callbacks = @ + (IF callback THEN 1 ELSE 0),
                    !.thread = "finished"]
           ELSE listener' = [listener EXCEPT
                    !.answers = Append(@, 0),
                    !.callbacks = @ + (IF callback THEN 1 ELSE 0)]
    /\ ListenerStep

(* the wait goes on *)
ListenerTick ==
    /\ listener.outcome = ""
    /\ listener.thread = "serving"
    /\ listener.elapsed < MaxWait
    /\ listener' = [listener EXCEPT !.elapsed = @ + 1]
    /\ ListenerStep

(* server_thread.join(timeout=120) returns: the thread ended or the time is
   up; server.server_close() and the test of the stored code and state *)
ListenerJoined ==
    /\ listener.outcome = ""
    /\ listener.thread = "finished" \/ listener.elapsed = MaxWait
    /\ LET received ==
               IF listener.provider = "antigravity"
               THEN listener.code # "" /\ listener.state # ""
               ELSE listener.code # ""
       IN  listener' = [listener EXCEPT
                           !.outcome = IF received THEN "exchange" ELSE "timed_out"]
    /\ ListenerStep

ListenerNext ==
    \/ \E path \in ListenerPaths, code \in {"", "c1"}, state \in {"", "s1"} :
          ListenerRequest(path, code, state)
    \/ ListenerTick
    \/ ListenerJoined

ListenerSpec == ListenerInit /\ [][ListenerNext]_vars

-----------------------------------------------------------------------------
(* src/codex_chat_model.py: one logical call of ChatCodex (_agenerate and
   _astream).  codex.handle is self.auth, codex.auth the local `auth` whose
   access token is in the Authorization header, codex.sent the requests sent
   so far (the access token of each and the status it was answered with, 0
   for no response), codex.recoveries the calls of
   _recover_after_unauthorized, codex.refreshes the calls of
   refresh_codex_token they made, codex.ensure_refreshes those of
   _ensure_auth, codex.loaded whether the credential came from storage,
   codex.tokenless whether some refresh of the call was answered with a
   success that carries no access_token. *)

CodexAttempts == 2

load_codex_auth_from_storage(d) ==
    LET loaded == load_codex_accounts(d)
        account == get_active_account(Get(loaded))
    IN  IF IsNone(loaded) \/ Get(loaded).accounts = <<>> THEN NoneV
        ELSE IF IsNone(account) THEN NoneV
        ELSE Some(CodexAuth("", Get(account).refresh_token, 0,
                            Get(account).account_id, Get(account).email))

(* the account_id step at the end of ChatCodex._ensure_auth *)
with_account_id(auth) ==
    IF auth.account_id = "" /\ auth.access_token # ""
    THEN [auth EXCEPT !.account_id = extract_account_id(auth.access_token)]
    ELSE auth

(* ChatCodex._ensure_auth with one caller *)
codex_ensure_auth(o, d, tok, t) ==
    LET loaded == IF IsNone(o) THEN load_codex_auth_from_storage(d) ELSE o
        r == refresh_codex_token(d, Get(loaded), tok, t)
    IN  IF IsNone(loaded)
        THEN [raised |-> "no_auth", auth |-> loaded, disk |-> d, refreshed |-> FALSE]
        ELSE IF codex_is_expired(Get(loaded), DefaultBufferSeconds, t)
        THEN IF r.outcome = "ok"
             THEN [raised |-> "", auth |-> Some(with_account_id(r.auth)), disk |-> r.disk,
                   refreshed |-> TRUE]
             ELSE [raised |-> r.outcome, auth |-> loaded, disk |-> r.disk, refreshed |-> TRUE]
        ELSE [raised |-> "", auth |-> Some(with_account_id(Get(loaded))), disk |-> d,
              refreshed |-> FALSE]

Recovery(raised, handle, d, refreshes) ==
    [raised |-> raised, handle |-> handle, disk |-> d, refreshes |-> refreshes]

(* the outcome of the one refresh a recovery makes *)
Recovered(handle, r) ==
    IF r.outcome = "ok"
    THEN Recovery("", Some(r.auth), r.disk, 1)
    ELSE Recovery(r.outcome, handle, r.disk, 1)

(* a recovery that refreshes whatever the handle holds *)
recover_always_refreshing(handle, auth, d, tok, t) ==
    Recovered(handle, refresh_codex_token(d, auth, tok, t))

(* ChatCodex._recover_after_unauthorized(auth), the lock its own: handle is
   self.auth, auth the credential the rejected request was sent with *)
_recover_after_unauthorized(handle, auth, d, tok, t) ==
    LET latest == load_codex_auth_from_storage(d)
        same_account ==
            \/ auth.account_id = ""
            \/ Get(latest).account_id = ""
            \/ auth.account_id = Get(latest).account_id
    IN  IF /\ ~IsNone(handle)
           /\ Get(handle).access_token # ""
           /\ Get(handle).access_token # auth.access_token
        THEN Recovery("", handle, d, 0)
        ELSE IF /\ ~IsNone(latest)
                /\ Get(latest).refresh_token # ""
                /\ same_account
                /\ Get(latest).refresh_token # auth.refresh_token
        THEN Recovered(handle, refresh_codex_token(d, Get(latest), tok, t))
        ELSE Recovered(handle, refresh_codex_token(d, auth, tok, t))

(* What the Codex backend does with one request: no response at all, a failure
   status (challenge: the body is a Cloudflare challenge page), or a success
   whose body holds the completion event ("done"), some text without it
   ("partial") or neither ("empty"). *)
CodexResponse(kind, status_code, challenge, body) ==
    [kind |-> kind, status_code |-> status_code, challenge |-> challenge, body |-> body]

CodexResponses ==
    {CodexResponse("transport", 0, FALSE, "")}
        \cup {CodexResponse("http", c, FALSE, "") : c \in {400, 401, 403, 429, 500}}
        \cup {CodexResponse("http", c, TRUE, "") : c \in {401, 403}}
        \cup {CodexResponse("http", 200, FALSE, b) : b \in {"done", "partial", "empty"}}

_is_cloudflare_challenge(resp) == resp.status_code \in {403, 429} /\ resp.challenge

(* a recovery after every 401 *)
unauthorized_retry_on_every_attempt(status_code, at_attempt) == status_code = 401

(* `if response.status_code == 401 and attempt == 0` *)
unauthorized_retry(status_code, at_attempt) == status_code = 401 /\ at_attempt = 0

(* how a successful response ends the call *)
codex_success(call_mode, body) ==
    IF call_mode = "stream"
    THEN IF body = "done" THEN "ok"
         ELSE IF codex_end_of_lines(body = "partial") = "returned" THEN "ok"
         ELSE "stream_ended"
    ELSE IF body = "done" THEN "ok" ELSE "no_final_response"

CodexCall(call_mode, cpc, at_attempt, handle, auth, sent, recoveries, refreshes, ensured, loaded, tokenless, outcome) ==
    [mode |-> call_mode, pc |-> cpc, attempt |-> at_attempt, handle |-> handle,
     auth |-> auth, sent |-> sent, recoveries |-> recoveries, refreshes |-> refreshes,
     ensure_refreshes |-> ensured, loaded |-> loaded, tokenless |-> tokenless,
     outcome |-> outcome]

CodexAccountA == CodexAccount("acc1", "rt0", "a@x", 0, 0)
CodexAccountRotated == CodexAccount("acc1", "rt9", "a@x", 0, 0)

CodexStoreA == AccountStorage(DefaultCodexStorageVersion, <<CodexAccountA>>, 0)
CodexStoreRotated == AccountStorage(DefaultCodexStorageVersion, <<CodexAccountRotated>>, 0)

(* a call starts with the credential handed to the model or with none, and the
   store as earlier logins and other processes left it *)
CodexScenarios ==
    {Scenario(NoneV, Disk(Some(CodexStoreA), NoneV), ""),
     Scenario(NoneV, Disk(NoneV, NoneV), ""),
     Scenario(Some(CodexAuth("at0", "rt0", DefaultExpiresIn, "acc1", "a@x")),
              Disk(Some(CodexStoreA), NoneV), ""),
     Scenario(Some(CodexAuth("at0", "rt0", DefaultExpiresIn, "acc1", "a@x")),
              Disk(Some(CodexStoreRotated), NoneV), ""),
     Scenario(Some(CodexAuth("at0", "", DefaultExpiresIn, "", "")),
              Disk(NoneV, NoneV), "")}

CodexExecTokenResponses ==
    {TokenSuccess(Some("at1"), Some("rt1"), NoneV),
     TokenSuccess(Some("jwt-acc1"), NoneV, NoneV),
     TokenSuccess(NoneV, NoneV, NoneV),
     TokenError(400, CodexErrorPayload(TRUE, TRUE, "str", "invalid_grant", "", "", "", "", "{...}")),
     NetworkFailure}

(* token_data.get("access_token", "") of a token answer is empty *)
no_access_token(tok) == IF_PRESENT(tok.access_token, "") = ""

CodexStart ==
    /\ now = 0
    /\ \E sc \in CodexScenarios, call_mode \in {"generate", "stream"} :
          /\ disk = sc.disk
          /\ codex = CodexCall(call_mode, "ensure", 0, sc.auth, NoneV, <<>>, 0, 0, 0,
                               IsNone(sc.auth), FALSE, "")
    /\ ExecAtRest
    /\ rf = RfIdle
    /\ ops = Unused /\ expiry = Unused /\ stream = Unused /\ conc = Unused /\ gate = Unused
    /\ poll = Unused /\ race = Unused
    /\ files = Unused /\ listener = Unused /\ slots = Unused

CodexInit == CodexStart

CodexStep == UNCHANGED <<now, execVars, rf, auxVars, poll, race, lateVars>>

(* auth = await self._ensure_auth() *)
CodexEnsure(tok) ==
    /\ codex # Unused
    /\ codex.pc = "ensure"
    /\ LET r == codex_ensure_auth(codex.handle, disk, tok, now)
       IN  /\ disk' = r.disk
           /\ codex' = [codex EXCEPT
                           !.handle = r.auth,
                           !.auth = r.auth,
                           !.ensure_refreshes = @ + (IF r.refreshed THEN 1 ELSE 0),
                           !.tokenless = r.refreshed /\ r.raised = "" /\ no_access_token(tok),
                           !.pc = IF r.raised # "" THEN "done" ELSE "request",
                           !.outcome = r.raised]
    /\ CodexStep

(* one iteration of `for attempt in range(2)` up to the recovery *)
CodexRequest(resp) ==
    /\ codex # Unused
    /\ codex.pc = "request"
    /\ LET sent == Append(codex.sent, [token |-> Get(codex.auth).access_token,
                                       status |-> resp.status_code])
           ends(outcome) == [codex EXCEPT !.sent = sent, !.pc = "done", !.outcome = outcome]
       IN  codex' =
               IF resp.kind = "transport" THEN ends("transport")
               ELSE IF is_success(resp.status_code)
               THEN ends(codex_success(codex.mode, resp.body))
               ELSE IF _is_cloudflare_challenge(resp) THEN ends("cloudflare")
               ELSE IF unauthorized_retry(resp.status_code, codex.attempt)
               THEN [codex EXCEPT !.sent = sent, !.pc = "recover"]
               ELSE ends("api_error")
    /\ UNCHANGED disk
    /\ CodexStep

(* await self._recover_after_unauthorized(auth); auth = self.auth or auth;
   continue *)
CodexRecover(tok) ==
    /\ codex # Unused
    /\ codex.pc = "recover"
    /\ LET r == _recover_after_unauthorized(codex.handle, Get(codex.auth), disk, tok, now)
           seen == [codex EXCEPT
                      !.recoveries = @ + 1,
                      !.refreshes = @ + r.refreshes,
                      !.tokenless = @ \/ (r.refreshes > 0 /\ r.raised = "" /\ no_access_token(tok)),
                      !.handle = r.handle]
       IN  /\ disk' = r.disk
           /\ codex' =
                 IF r.raised # ""
                 THEN [seen EXCEPT !.pc = "done", !.outcome = r.raised]
                 ELSE IF codex.attempt + 1 < CodexAttempts
                 THEN [seen EXCEPT !.auth = r.handle, !.attempt = @ + 1, !.pc = "request"]
                 ELSE [seen EXCEPT !.auth = r.handle, !.pc = "done",
                                   !.outcome = "unauthorized_after_refresh"]
    /\ CodexStep

CodexNext ==
    \/ \E tok \in CodexExecTokenResponses : CodexEnsure(tok)
    \/ \E resp \in CodexResponses : CodexRequest(resp)
    \/ \E tok \in CodexExecTokenResponses : CodexRecover(tok)

CodexSpec == CodexInit /\ [][CodexNext]_vars

(* the calls of both executors that start from the store *)
LoadedInit == ExecInit \/ CodexInit

LoadedNext ==
    \/ pc # "idle" /\ ExecNext
    \/ codex # Unused /\ CodexNext

LoadedSpec == LoadedInit /\ [][LoadedNext]_vars

-----------------------------------------------------------------------------
(* src/codex_chat_model.py: several calls on one ChatCodex instance whose
   requests, all sent with the same credential, were answered 401.  Each calls
   _recover_after_unauthorized(auth); `async with self._auth_refresh_lock`
   lets one in at a time, and the only suspension inside the lock is the await
   of refresh_codex_token.  race.handle is self.auth, race.lock the caller
   holding the lock, race.rpc each caller's position, race.log the recoveries
   in the order they ended: the caller, whether it refreshed, how the recovery
   ended, and the access token of self.auth it left with. *)

RejectedAuth == CodexAuth("at0", "rt0", DefaultExpiresIn, "acc1", "a@x")

RaceRecord(handle, lock, rpc, log) ==
    [handle |-> handle, lock |-> lock, rpc |-> rpc, log |-> log]

Recovering(caller, refreshed, raised, token) ==
    [caller |-> caller, refreshed |-> refreshed, raised |-> raised, token |-> token]

RaceInit ==
    /\ now = 0
    /\ disk \in {Disk(Some(CodexStoreA), NoneV), Disk(Some(CodexStoreRotated), NoneV)}
    /\ race = RaceRecord(Some(RejectedAuth), NoCaller, [c \in Callers |-> "rejected"], <<>>)
    /\ ExecAtRest
    /\ rf = RfIdle
    /\ ops = Unused /\ expiry = Unused /\ stream = Unused /\ conc = Unused /\ gate = Unused
    /\ poll = Unused /\ codex = Unused
    /\ files = Unused /\ listener = Unused /\ slots = Unused

RaceStep == UNCHANGED <<now, execVars, rf, auxVars, poll, codex, lateVars>>

(* the lock is granted: the test of self.auth against the rejected credential,
   then either `return True` or the await of the refresh *)
RaceEnter(c) ==
    /\ race # Unused
    /\ race.rpc[c] = "rejected"
    /\ race.lock = NoCaller
    /\ LET r == _recover_after_unauthorized(race.handle, RejectedAuth, disk, NetworkFailure, now)
       IN  IF r.refreshes = 0
           THEN race' = [race EXCEPT
                            !.rpc[c] = "retry",
                            !.log = Append(@, Recovering(c, FALSE, "",
                                                         Get(race.handle).access_token))]
           ELSE race' = [race EXCEPT !.lock = c, !.rpc[c] = "exchanging"]
    /\ UNCHANGED disk
    /\ RaceStep

(* the token endpoint answers the refresh of the caller holding the lock *)
RaceAnswered(c, tok) ==
    /\ race # Unused
    /\ race.rpc[c] = "exchanging"
    /\ LET r == _recover_after_unauthorized(race.handle, RejectedAuth, disk, tok, now)
       IN  /\ disk' = r.disk
           /\ race' = [race EXCEPT
                          !.handle = r.handle,
                          !.lock = NoCaller,
                          !.rpc[c] = IF r.raised # "" THEN "raised" ELSE "retry",
                          !.log = Append(@, Recovering(c, TRUE, r.raised,
                                                       Get(r.handle).access_token))]
    /\ RaceStep

RaceNext ==
    \/ \E c \in Callers : RaceEnter(c)
    \/ \E c \in Callers, tok \in CodexExecTokenResponses : RaceAnswered(c, tok)

RaceSpec == RaceInit /\ [][RaceNext]_vars

-----------------------------------------------------------------------------
(* Further properties of the Antigravity executor (specification Spec) *)

(* the call ended with the error raised after the outer loop *)
Aggregated == pc = "done" /\ result.kind \in {"all_endpoints_failed", "all_endpoints_failed_no_error"}

(* C23: the aggregated error that carries a status (an HTTP error was
   captured) carries 429 when the last observed status of some endpoint is
   429, whatever the captured error was, and the status of the last captured
   HTTP error otherwise; the statuses it lists are those of
   last_status_by_endpoint.  Without a captured HTTP error it carries no
   status of its own and lists the statuses only. *)
C23_AggregatedErrorPrefers429 ==
    Aggregated =>
        /\ result.kind = "all_endpoints_failed"
              => /\ last_http_error # 0
                 /\ (\E e \in Endpoints : last_status_by_endpoint[e] = 429)
                       => result.code = 429
                 /\ (\A e \in Endpoints : last_status_by_endpoint[e] # 429)
                       => result.code = last_http_error
        /\ result.kind = "all_endpoints_failed_no_error"
              => last_http_error = 0 /\ result.code = 0

(* the last captured HTTP error was a 403 and an endpoint was last seen
   answering 429 *)
C23_Witness ==
    /\ Aggregated
    /\ last_http_error = 403
    /\ \E e \in Endpoints : last_status_by_endpoint[e] = 429
    /\ \E e \in Endpoints : last_status_by_endpoint[e] = 403
    /\ result.code = 429

(* every endpoint was contacted on each of the passes of the call *)
EveryEndpointContacted == obs.n_requests = MaxAttempts * NumEndpoints

(* C24: every endpoint attempt is recorded, transport-level failures included:
   the endpoint-to-status map of the aggregated error has an entry for every
   candidate endpoint that was contacted, also for an endpoint whose every
   attempt failed without any response *)
C24_EveryContactedEndpointRecorded ==
    (Aggregated /\ EveryEndpointContacted)
        => \A e \in Endpoints : last_status_by_endpoint[e] # 0

(* every pass so far failed on every endpoint at the transport level *)
TransportOnly == \A e \in Endpoints : last_status_by_endpoint[e] = 0

(* C25: when a pass fails on every endpoint at the transport level, the
   executor sleeps a backoff delay before starting the next pass, up to the
   ceiling of four attempts, and only then surfaces the failure *)
C25_TransportFailuresBackOff ==
    [][(pc = "after_pass" /\ TransportOnly)
          => /\ attempt + 1 < MaxAttempts => pc' = "ensure" /\ obs'.slept
             /\ attempt + 1 = MaxAttempts => pc' = "done"]_vars

(* no project id is known: no override, and the credential has none or only
   the default one *)
NoProjectKnown ==
    /\ project_override = ""
    /\ ~IsNone(self_auth)
    /\ _resolve_auth_project_id(self_auth) \in {"", ANTIGRAVITY_DEFAULT_PROJECT_ID}

(* C26: on the first outer attempt the project-id recovery is independent of
   the forced refresh: whenever no project id is known and some endpoint
   answered 403 or 429, the executor attempts the project-id fetch before the
   second pass, whether or not a forced refresh was performed in the same
   recovery step *)
C26_ProjectFetchIndependentOfRefresh ==
    [][(/\ pc = "after_pass" /\ attempt = 0
        /\ NoProjectKnown
        /\ \E e \in Endpoints : last_status_by_endpoint[e] \in {403, 429})
          => obs'.project_fetches = obs.project_fetches + 1]_vars

(* C36: all content chunks that one streaming call yields come from a single
   endpoint response: once a content chunk has been yielded the executor
   opens no other request, neither on the next endpoint nor in a new pass *)
C36_ChunksFromOneResponse ==
    chunks > 0 => pc \in {"streaming", "done"}

-----------------------------------------------------------------------------
(* Properties of the polling loop as it runs on (specification PollLiveSpec) *)

(* C37: device-code polling terminates for every provider behaviour:
   exchange_copilot_device_code eventually returns a credential or raises an
   error and never polls forever, also when the provider keeps answering
   authorization_pending or answers with neither a token nor an error code *)
C37_PollingTerminates == <>(poll.outcome # "")

-----------------------------------------------------------------------------
(* Properties of concurrent saves (specification FileSpec) *)

BothSaved == \A p \in Processes : files.proc[p].pc = "saved"

(* C31: when two processes concurrently load, change and save the store, the
   persisted store is the document of the process that saved last, never a
   mixture of the two documents *)
C31_LastWriterWins ==
    BothSaved => files.text = files.proc[files.order[Len(files.order)]].doc

-----------------------------------------------------------------------------
(* Properties of the callback listener (specification ListenerSpec) *)

(* C38: the listener keeps waiting for the callback until a request on the
   callback path arrives or the bounded wait elapses: a request to another
   path that arrives first is answered 404 and does not prevent a later
   callback request within the wait from being accepted *)
C38_ListenerWaitsForCallback ==
    /\ listener.outcome # ""
          => listener.callbacks > 0 \/ listener.elapsed = MaxWait
    /\ \A i \in 1..Len(listener.answers) : listener.answers[i] \in {200, 404}

-----------------------------------------------------------------------------
(* Properties of the Codex executor (specification CodexSpec) *)

CodexFailures == {"transport", "cloudflare", "api_error", "stream_ended", "no_final_response"}

RefreshFailures == {"missing_refresh_token", "network", "malformed", "revoked", "failed"}

FirstAnswered401 == Len(codex.sent) >= 1 /\ codex.sent[1].status = 401

(* C27: one logical call of the Codex executor, streaming or not, sends at
   most two model requests: a 401 on the first request triggers exactly one
   recovery and one retry with the recovered credential; a 401 or any other
   failure status on the retry, and any non-401 failure on the first request,
   is raised to the caller without any further refresh or request *)
C27_CodexOneRecoveryOneRetry ==
    /\ Len(codex.sent) <= 2
    /\ codex.recoveries <= 1
    /\ codex.refreshes <= codex.recoveries
    /\ codex.recoveries = 1 <=> (FirstAnswered401 /\ codex.pc # "recover")
    /\ Len(codex.sent) = 2
          => /\ FirstAnswered401
             /\ codex.pc = "done"
             /\ codex.sent[2].token = Get(codex.handle).access_token
             /\ codex.sent[2].token = Get(codex.auth).access_token
             /\ ~is_success(codex.sent[2].status) => codex.outcome \in CodexFailures
    /\ (Len(codex.sent) = 1 /\ ~FirstAnswered401)
          => /\ codex.pc = "done"
             /\ ~is_success(codex.sent[1].status) => codex.outcome \in CodexFailures
    /\ (Len(codex.sent) = 1 /\ FirstAnswered401 /\ codex.pc = "done")
          => codex.outcome \in RefreshFailures

C27_Witness ==
    /\ codex.pc = "done"
    /\ Len(codex.sent) = 2
    /\ codex.sent[1].status = 401 /\ codex.sent[2].status = 401
    /\ codex.sent[1].token # codex.sent[2].token
    /\ codex.recoveries = 1 /\ codex.refreshes = 1
    /\ codex.outcome = "api_error"

-----------------------------------------------------------------------------
(* Properties of the calls that start from the store (specification
   LoadedSpec) *)

AntigravityCall == pc # "idle"

CodexCalled == codex # Unused

(* C29: a credential loaded from storage by the Antigravity or Codex executor
   (empty access token, expires_at 0) is always refreshed before the first
   model request of the call; provided the refresh response carries an access
   token, no model request is ever sent with an empty access token, and if
   that refresh fails no model request is sent at all *)
C29_LoadedCredentialRefreshedFirst ==
    /\ AntigravityCall
          => /\ pc = "request" => ~IsNone(self_auth) /\ Get(self_auth).access_token # ""
             /\ obs.n_requests > 0
                   => /\ ~IsNone(self_auth)
                      /\ Get(self_auth).access_token # ""
                      /\ Get(self_auth).expires_at > 0
             /\ (pc = "done" /\ result.at_attempt = 0 /\ result.kind \in RefreshFailures)
                   => obs.n_requests = 0
    /\ (CodexCalled /\ codex.loaded)
          => /\ codex.pc = "request" => codex.ensure_refreshes = 1
             /\ codex.sent # <<>> => codex.ensure_refreshes = 1
             /\ ~codex.tokenless => \A i \in 1..Len(codex.sent) : codex.sent[i].token # ""
             /\ (codex.pc = "done" /\ codex.recoveries = 0 /\ codex.outcome \in RefreshFailures)
                   => codex.sent = <<>>

C29_Witness ==
    /\ CodexCalled
    /\ codex.loaded
    /\ codex.ensure_refreshes = 1
    /\ ~codex.tokenless
    /\ Len(codex.sent) = 2
    /\ codex.sent[1].token # "" /\ codex.sent[2].token # ""

-----------------------------------------------------------------------------
(* Properties of concurrent recoveries (specification RaceSpec) *)

Refreshes == {i \in 1..Len(race.log) : race.log[i].refreshed}

(* the recovery replaced the rejected access token by another one *)
Renewed(i) ==
    /\ race.log[i].refreshed
    /\ race.log[i].raised = ""
    /\ race.log[i].token \notin {"", RejectedAuth.access_token}

AllRecovered == \A c \in Callers : race.rpc[c] \in {"retry", "raised"}

(* C28: if several concurrent calls sharing one model instance receive 401
   for the same access token, exactly one token refresh is performed under
   the refresh lock; every later caller finds that the handle's access token
   already differs from the one it sent and retries with the new token without
   performing a refresh of its own *)
C28_ExactlyOneRefresh ==
    /\ Cardinality({c \in Callers : race.rpc[c] = "exchanging"}) <= 1
    /\ Cardinality(Refreshes) <= 1
    /\ \A i \in 2..Len(race.log) :
          /\ ~race.log[i].refreshed
          /\ race.log[i].token # RejectedAuth.access_token
          /\ race.log[i].token = race.log[1].token

(* C28, amended: the refreshes are made one at a time under the lock, and once
   one of them has replaced the rejected access token by a new one, every
   later caller finds the new token in the handle and retries with it without
   a refresh of its own; a caller skips its refresh only then.  After a
   refresh that failed, or that returned no new access token, the next caller
   makes a refresh of its own. *)
C28_OneRefreshOnceTheTokenIsRenewed ==
    /\ Cardinality({c \in Callers : race.rpc[c] = "exchanging"}) <= 1
    /\ \A c \in Callers : race.rpc[c] = "exchanging" <=> race.lock = c
    /\ \A i, j \in 1..Len(race.log) :
          (i < j /\ Renewed(i))
              => /\ ~race.log[j].refreshed
                 /\ race.log[j].raised = ""
                 /\ race.log[j].token = race.log[i].token
    /\ \A j \in 1..Len(race.log) :
          ~race.log[j].refreshed => \E i \in 1..(j - 1) : Renewed(i)
    /\ (\E i \in 1..Len(race.log) : Renewed(i)) => \A c \in Callers : race.rpc[c] # "exchanging"

C28_Witness ==
    /\ AllRecovered
    /\ Len(race.log) = NumCallers
    /\ Renewed(1)
    /\ Cardinality(Refreshes) = 1
    /\ \A c \in Callers : race.rpc[c] = "retry"

-----------------------------------------------------------------------------
(* Properties of the stores (specification StoreSpec) *)

(* the records of the store in files d *)
AccountsOf(d) ==
    IF IsNone(load_store(ops.provider, d)) THEN <<>>
    ELSE Get(load_store(ops.provider, d)).accounts

AccountsBefore == IF IsNone(ops.before) THEN <<>> ELSE AccountsOf(Get(ops.before))

AccountsNow == AccountsOf(disk)

(* the credential names its account: an email for Antigravity, an account id
   or an email for Codex *)
IdentityKnown(auth) ==
    IF ops.provider = "antigravity" THEN auth.email # ""
    ELSE auth.account_id # "" \/ auth.email # ""

(* the record is the one of the credential's account: by email for
   Antigravity; by account id, else by email, for Codex *)
RecordOf(acc, auth) ==
    IF ops.provider = "antigravity" THEN auth.email # "" /\ acc.email = auth.email
    ELSE IF auth.account_id # "" THEN acc.account_id = auth.account_id
    ELSE auth.email # "" /\ acc.email = auth.email

TokenOf(acc) ==
    CASE ops.provider = "antigravity" -> acc.refreshToken
      [] ops.provider = "codex" -> acc.refresh_token
      [] OTHER -> acc.access_token

UpsertOf == ops.op = "upsert" /\ IdentityKnown(Get(ops.auth))

(* C12: an upsert of a credential whose account is already stored leaves the
   number of records as it was and changes one record, that of the account,
   which then holds the credential's refresh token; and an upsert that repeats
   the upsert before it (same credential, identity known) leaves the number of
   records as the first upsert left it. *)
C12_UpsertIdempotentByIdentity ==
    UpsertOf =>
        /\ (\E i \in 1..Len(AccountsBefore) : RecordOf(AccountsBefore[i], Get(ops.auth)))
              => /\ Len(AccountsNow) = Len(AccountsBefore)
                 /\ \E i \in 1..Len(AccountsBefore) :
                       /\ RecordOf(AccountsBefore[i], Get(ops.auth))
                       /\ \A j \in 1..Len(AccountsBefore) :
                             j # i => AccountsNow[j] = AccountsBefore[j]
                       /\ Get(ops.auth).refresh_token # ""
                             => TokenOf(AccountsNow[i]) = Get(ops.auth).refresh_token
        /\ ops.repeated => Len(AccountsNow) = Len(AccountsBefore)

(* the same credential was upserted twice in a row into a store that holds
   another account as well *)
C12_Witness ==
    /\ UpsertOf
    /\ ops.repeated
    /\ Get(ops.auth).refresh_token # ""
    /\ Len(AccountsNow) = 2
    /\ \E i \in 1..2 : RecordOf(AccountsNow[i], Get(ops.auth))

(* the store in files d, an empty one when there is no file *)
StorageOf(d) ==
    IF IsNone(load_store(ops.provider, d)) THEN EmptyAccountStorage
    ELSE Get(load_store(ops.provider, d))

(* C13: an upsert of a credential that names no account (no email for
   Antigravity, neither account id nor email for Codex) into a store that
   holds records appends nothing: the number of records stays, the active
   index stays, and the record that was active holds the credential's refresh
   token afterwards. *)
C13_UnknownIdentityUpdatesActive ==
    (/\ ops.op = "upsert"
     /\ ~IdentityKnown(Get(ops.auth))
     /\ Get(ops.auth).refresh_token # ""
     /\ AccountsBefore # <<>>)
        => /\ Len(AccountsNow) = Len(AccountsBefore)
           /\ StorageOf(disk).active_index = StorageOf(Get(ops.before)).active_index
           /\ TokenOf(AccountsNow[StorageOf(disk).active_index + 1]) = Get(ops.auth).refresh_token

(* C14: whenever the store exists, its active index designates one of the
   records if there are any, and is 0 with no active account if there are
   none. *)
C14_ActiveIndexInRange ==
    ~IsNone(load_store(ops.provider, disk))
        => /\ AccountsNow # <<>>
                => /\ 0 <= StorageOf(disk).active_index
                   /\ StorageOf(disk).active_index <= Len(AccountsNow) - 1
           /\ AccountsNow = <<>>
                => /\ StorageOf(disk).active_index = 0
                   /\ IsNone(get_active_account(StorageOf(disk)))

(* the active account, last of two, was removed *)
C14_Witness ==
    /\ ops.op = "remove"
    /\ Len(AccountsBefore) = 2
    /\ StorageOf(Get(ops.before)).active_index = 1
    /\ Len(AccountsNow) = 1
    /\ AccountsNow[1] = AccountsBefore[1]
    /\ StorageOf(disk).active_index = 0

(* the identity a login is stored under: the email for Antigravity, the
   account id for Codex, the account id, else the login name, else the email
   for Copilot *)
LoginKey(auth) ==
    CASE ops.provider = "antigravity" -> auth.email
      [] ops.provider = "codex" -> auth.account_id
      [] OTHER -> copilot_account_id(auth)

KeyOf(acc) == IF ops.provider = "antigravity" THEN acc.email ELSE acc.account_id

(* the token a login stores *)
LoginToken(auth) ==
    IF ops.provider = "copilot" THEN auth.access_token ELSE auth.refresh_token

Holders(accounts, key) == {i \in 1..Len(accounts) : KeyOf(accounts[i]) = key}

(* C15: after a login the active index designates a record, which is the one
   of the identity that logged in and holds the token of this login; when the
   identity was stored already the store has as many records as before, and
   as many for that identity, and one more otherwise. *)
C15_LoginMakesAccountActive ==
    ops.op = "login" =>
        LET auth == Get(ops.auth)
            active_index == StorageOf(disk).active_index
        IN  /\ 0 <= active_index /\ active_index < Len(AccountsNow)
            /\ KeyOf(AccountsNow[active_index + 1]) = LoginKey(auth)
            /\ TokenOf(AccountsNow[active_index + 1]) = LoginToken(auth)
            /\ IF Holders(AccountsBefore, LoginKey(auth)) # {}
               THEN /\ Len(AccountsNow) = Len(AccountsBefore)
                    /\ Cardinality(Holders(AccountsNow, LoginKey(auth)))
                         = Cardinality(Holders(AccountsBefore, LoginKey(auth)))
               ELSE Len(AccountsNow) = Len(AccountsBefore) + 1

(* an account that was stored with another token, and was not the active one
   of two, logged in again *)
C15_Witness ==
    /\ ops.op = "login"
    /\ Len(AccountsBefore) = 2
    /\ \E i \in Holders(AccountsBefore, LoginKey(Get(ops.auth))) :
          /\ TokenOf(AccountsBefore[i]) # LoginToken(Get(ops.auth))
          /\ StorageOf(Get(ops.before)).active_index # i - 1
          /\ StorageOf(disk).active_index = i - 1
    /\ Len(AccountsNow) = 2

-----------------------------------------------------------------------------
(* Properties of is_expired (specification ExpirySpec) *)

(* the answer is "expired" exactly from expires_at - buffer on, and an answer
   after an "expired" one is "expired" *)
AnswerFollowsTheClock ==
    /\ expiry.answer = "expired"
          <=> expiry.at >= expiry.auth.expires_at - expiry.buffer_seconds
    /\ expiry.was_expired => expiry.answer = "expired"

(* C16, as stated: for a credential of any of the three providers, expires_at
   0 included, and any buffer, is_expired answers false at every time before
   expires_at - buffer and true at every time from then on, and stays true
   once it was true. *)
C16_ExpiredFromBufferOn ==
    expiry.answer # "" => AnswerFollowsTheClock

(* C16, amended: the same for every Antigravity and Codex credential and for
   a Copilot credential whose expires_at is not 0; a Copilot credential whose
   expires_at is 0 is not expired at any time. *)
C16_ExpiredFromBufferOnUnlessNoExpiry ==
    expiry.answer # "" =>
        IF expiry.provider = "copilot" /\ expiry.auth.expires_at = 0
        THEN expiry.answer = "valid"
        ELSE AnswerFollowsTheClock

(* a Copilot credential with an expiry answers "expired" for the first time,
   at the instant its buffer starts *)
C16_Witness ==
    /\ expiry.provider = "copilot"
    /\ expiry.auth.expires_at # 0
    /\ expiry.buffer_seconds > 0
    /\ expiry.answer = "expired"
    /\ ~expiry.was_expired
    /\ expiry.at = expiry.auth.expires_at - expiry.buffer_seconds

-----------------------------------------------------------------------------
(* Properties of concurrent _ensure_auth (specification AuthConcSpec) *)

Exchanging == {c \in Callers : conc.cpc[c] = "exchanging"}

(* C17: for every executor that refreshes, at most one exchange of the shared
   credential's refresh token is in flight at any time, and no exchange is in
   flight once a refresh has replaced the credential: a call that arrived
   during that refresh uses its result. *)
C17_SingleRefreshInFlight ==
    /\ Cardinality(Exchanging) <= 1
    /\ ~conc.expired => Exchanging = {}

-----------------------------------------------------------------------------
(* Properties of removals (specification RemoveSpec) *)

ActiveKey(d) == KeyOf(StorageOf(d).accounts[StorageOf(d).active_index + 1])

(* remove(identity) returned True for an identity that was not the active one *)
RemovedNonActive ==
    /\ ops.op = "remove"
    /\ Len(AccountsNow) = Len(AccountsBefore) - 1
    /\ ActiveKey(Get(ops.before)) # ops.key

(* C33: removing an account that is not the active one leaves the same
   account active: after remove(identity) succeeds for a non-active identity
   the active index designates the same account identity as before, for each
   of the three provider stores and wherever the removed record was *)
C33_RemoveKeepsActiveAccount ==
    RemovedNonActive => ActiveKey(disk) = ActiveKey(Get(ops.before))

-----------------------------------------------------------------------------
(* Properties of the request gate (specification GateSpec) *)

OpenRequests == {c \in Calls : gate.gpc[c] = "open"}

(* C18: the number of model requests open at once never exceeds the limit,
   which is the configured integer when that is 1 or more, 2 when nothing is
   configured, and never below 1; a call that found no free slot has not sent
   its request. *)
C18_GateBoundsOpenRequests ==
    /\ Cardinality(OpenRequests) <= gate.limit
    /\ gate.limit >= 1
    /\ ~gate.env.is_set => gate.limit = 2
    /\ (gate.env.is_set /\ gate.env.is_int /\ gate.env.n >= 1) => gate.limit = gate.env.n
    /\ Cardinality(OpenRequests) = gate.limit - gate.value

(* with nothing configured two requests are open, one of a streaming call and
   one of a non-streaming call, and a third call waits *)
C18_Witness ==
    /\ ~gate.env.is_set
    /\ Cardinality(OpenRequests) = 2
    /\ \E c, d \in OpenRequests : gate.kind[c] = "stream" /\ gate.kind[d] = "generate"
    /\ \E c \in Calls : gate.gpc[c] = "waiting"

-----------------------------------------------------------------------------
(* Properties of the gated requests (specifications SlotsSpec, SlotsFairSpec) *)

SlotHolders == {c \in Gated : slots.held[c]}

(* C39: no backoff sleep is performed while the call holds a slot of the
   gate, in the non-streaming and in the streaming executor *)
C39_NoSleepInsideGate == \A c \in Gated : slots.pos[c] = "sleeping" => ~slots.held[c]

SlotsReleased ==
    /\ slots.value = slots.limit - Cardinality(SlotHolders)
    /\ \A c \in Gated : slots.pos[c] \in {"loop", "waiting", "done"} => ~slots.held[c]
    /\ (\A c \in Gated : slots.pos[c] \notin {"open", "sleeping"}) => slots.value = slots.limit

(* C32: every slot a call acquires is released on every exit of the gated
   request, so that all slots are free when no request is open, and under
   fair scheduling a call that waits for the gate eventually sends its
   request *)
C32_SlotsReleasedAndWaitersServed ==
    /\ []SlotsReleased
    /\ \A c \in Gated : (slots.pos[c] = "waiting") ~> (slots.pos[c] = "open")

(* a call that had to wait has its request open after the holder of the only
   slot left through a transport failure *)
C32_Witness ==
    /\ slots.limit = 1
    /\ \E c, d \in Gated :
          /\ slots.waited[c] /\ slots.pos[c] = "open"
          /\ slots.pos[d] \in {"loop", "done"} /\ slots.left[d] < MaxPasses

-----------------------------------------------------------------------------
(* Properties of streaming (specification StreamSpec) *)

RECURSIVE ContentChunks(_, _)
(* the content chunks of a response, in the order of its lines *)
ContentChunks(provider, lines) ==
    IF lines = <<>> THEN <<>>
    ELSE yields(provider, Head(lines)) \o ContentChunks(provider, Tail(lines))

NoCompletionMarker == \A i \in 1..Len(stream.lines) : stream.lines[i].kind # "done"

(* C19: when a response carries one or more content chunks and ends without
   a completion marker, the call ends by returning, having handed the caller
   every chunk of the response in order. *)
C19_PartialStreamSucceeds ==
    (/\ stream.outcome # ""
     /\ NoCompletionMarker
     /\ ContentChunks(stream.provider, stream.lines) # <<>>)
        => /\ stream.outcome = "returned"
           /\ stream.delivered = ContentChunks(stream.provider, stream.lines)

(* a Codex response of two content chunks and no completion marker has ended *)
C19_Witness ==
    /\ stream.provider = "codex"
    /\ stream.outcome = "returned"
    /\ NoCompletionMarker
    /\ Len(stream.lines) = 2
    /\ stream.delivered = <<"a", "b">>

(* C20: when a response ends without a completion marker and no content
   chunk was delivered, the call ends with an error, in the Antigravity
   executor as in the Codex executor. *)
C20_EmptyStreamIsAnError ==
    (/\ stream.outcome # ""
     /\ NoCompletionMarker
     /\ stream.delivered = <<>>)
        => stream.outcome = "raised"

-----------------------------------------------------------------------------
(* Properties of device-code polling (specification PollSpec) *)

Polled == 1..Len(poll.answers)

SlowDown(k) == poll.answers[k].kind = "payload" /\ poll.answers[k].error = "slow_down"

(* the k-th answer is a slow_down that carries a positive number *)
WithServerInterval(k) ==
    /\ SlowDown(k)
    /\ poll.answers[k].server_interval.present
    /\ poll.answers[k].server_interval.is_number
    /\ poll.answers[k].server_interval.ms > 0

WithoutServerInterval(k) == SlowDown(k) /\ ~poll.answers[k].server_interval.present

(* the answer after the k-th, if there is one and it is not a slow_down,
   finds the interval the k-th left *)
IntervalStays(k) ==
    (k + 1 \in Polled /\ ~SlowDown(k + 1)) => poll.after[k + 1] = poll.after[k]

(* C21, as stated: after a slow_down with a positive server interval I the
   loop sleeps I plus the 3-second margin and I is the interval of the
   following polls; after a slow_down without a server interval the interval
   is the previous one plus 5 seconds. *)
C21_SlowDownUsesServerInterval ==
    \A k \in Polled :
        /\ WithServerInterval(k)
              => /\ poll.sleeps[k] = poll.answers[k].server_interval.ms + 3000
                 /\ poll.after[k] * 1000 = poll.answers[k].server_interval.ms
                 /\ IntervalStays(k)
        /\ WithoutServerInterval(k) => poll.after[k] = poll.before[k] + 5

(* the whole seconds of I, and 1 when I is below one second *)
WholeSeconds(ms) == IF ms < 1000 THEN 1 ELSE ms \div 1000

(* C21, amended: after a slow_down with a positive server interval I the
   interval is I cut to whole seconds, 1 second at least, which is I itself
   when I is a whole number of seconds; the loop sleeps that interval plus
   the 3-second margin and the interval stays for the following polls; after
   a slow_down without a server interval the interval is the previous one
   plus 5 seconds. *)
C21_SlowDownUsesWholeSecondsOfServerInterval ==
    \A k \in Polled :
        /\ WithServerInterval(k)
              => /\ poll.after[k] = WholeSeconds(poll.answers[k].server_interval.ms)
                 /\ poll.sleeps[k] = (poll.after[k] * 1000) + 3000
                 /\ IntervalStays(k)
        /\ WithoutServerInterval(k) => poll.after[k] = poll.before[k] + 5

(* a slow_down with a server interval of 3 seconds, other than the interval
   before it, was followed by a poll that was told to wait *)
C21_Witness ==
    /\ Len(poll.answers) >= 2
    /\ WithServerInterval(1)
    /\ poll.answers[1].server_interval.ms = 3000
    /\ poll.before[1] # 3
    /\ poll.sleeps[1] = 6000
    /\ poll.answers[2].error = "authorization_pending"
    /\ poll.after[2] = 3

OtherErrorCode(k) ==
    /\ poll.answers[k].kind = "payload"
    /\ poll.answers[k].error \notin {"", "authorization_pending", "slow_down"}

(* C22: an authorization_pending answer leaves the interval as it was and is
   followed by a sleep of the interval plus the 3-second margin, after which
   the loop polls again; an answer with any other error code than
   authorization_pending and slow_down is the last one: the loop has raised
   and no poll can follow. *)
C22_PendingGoesOnOtherErrorsEnd ==
    \A k \in Polled :
        /\ (poll.answers[k].kind = "payload" /\ poll.answers[k].error = "authorization_pending")
              => /\ poll.after[k] = poll.before[k]
                 /\ poll.sleeps[k] = (poll.before[k] * 1000) + 3000
                 /\ (k = Len(poll.answers) => poll.outcome = "")
                 /\ (k = Len(poll.answers) /\ k < MaxPolls) => ENABLED PollNext
        /\ OtherErrorCode(k)
              => /\ k = Len(poll.answers)
                 /\ poll.outcome = "raised"
                 /\ poll.sleeps[k] = 0
                 /\ ~ENABLED PollNext

(* the loop went on after authorization_pending and ended on access_denied *)
C22_Witness ==
    /\ Len(poll.answers) = 2
    /\ poll.answers[1].error = "authorization_pending"
    /\ poll.answers[2].error = "access_denied"
    /\ poll.outcome = "raised"

(* C30: whatever the server sends with a slow_down, the interval after it is
   at least the interval before it. *)
C30_SlowDownNeverLowersInterval ==
    \A k \in Polled : SlowDown(k) => poll.after[k] >= poll.before[k]

=============================================================================
